---- MODULE Spec2Model ----
(***************************************************************************)
(* A model of xamr (src/xamr/core.py): AMReXDataset, AMReXDataArray and    *)
(* AMReXCalculations on top of the yt engine.                              *)
(*                                                                         *)
(* Paths are sequences of one-character strings, so that the test for a    *)
(* glob pattern and the glob match itself are computed and not assumed.    *)
(* A snapshot (the object yt.load returns) is identified by the position   *)
(* of its load in the engine's load log.  Arrays are records                *)
(* [shape, v]: v is a nested sequence whose leaves are symbolic cells      *)
(* [s, f, i] (snapshot, field identifier, cell index).                     *)
(* The snapshots of one run are structurally compatible (one               *)
(* dimensionality, one domain), as the Dataset assumes.                    *)
(***************************************************************************)
EXTENDS Integers, Sequences, FiniteSets, TLC

VARIABLES
    dimensionality, \* the engine's yt_ds.dimensionality of every snapshot (2 or 3)
    pc,             \* "start" | "ready" (Dataset constructed) | "failed"
    ds,             \* the AMReXDataset object's attributes
    loads,          \* engine log: the paths yt.load was called with, in order
    grids,          \* engine log: the covering grids built, in order
    engine,         \* per snapshot: the derived fields registered and the calls made
    arrays,         \* the AMReXDataArray objects created so far, in order
    reads,          \* engine log: the field reads made on grids and selections
    ret,            \* what the last call returned or raised
    last            \* the last call made and its arguments

vars == <<dimensionality, pc, ds, loads, grids, engine, reads, arrays, ret, last>>

----------------------------------------------------------------------------
(* Bounds of the model *)

MaxFiles == 3    \* longest explicit list of paths given to the constructor
MaxArrays == 3   \* DataArray objects created in one run
MaxLevel == 1    \* yt_ds.max_level of the snapshots
NX == 2          \* cells per axis of the level-0 domain
MaxGradCalls == 4 \* add_gradient_fields calls logged per snapshot
MaxGridRounds == 2 \* covering grids logged by the engine, per snapshot
MaxIndexed == 1  \* DataArray objects of a run that indexes them
MaxSelected == 2 \* DataArray objects of a run that narrows selections
MaxEvaluations == 2 \* reads of DataArray data in a run that registers recipes

----------------------------------------------------------------------------
(* The engine's world: files on disk and what yt reports for them *)

P1 == <<"p", "1">>
P2 == <<"p", "2">>
P3 == <<"p", "3">>
Q1 == <<"q", "1">>

Disk == {P1, P2, P3}

\* float(yt_ds.current_time) of the snapshot loaded from a path
FileTime(path) == IF path = P1 THEN 2 ELSE 1

\* yt_ds.field_list of the snapshot loaded from a path; p3 was written
\* without the field v, p1 with a field of its own named u_gradient_x and
\* without the field divergence, p2 with a field of its own named vorticity_z
FieldList(path) ==
    {[ns |-> "boxlib", name |-> "u"],
     [ns |-> "gas", name |-> "rho"]}
    \cup (IF path = P3 THEN {} ELSE {[ns |-> "boxlib", name |-> "v"]})
    \cup (IF path = P1 THEN {[ns |-> "amrex", name |-> "u_gradient_x"]}
         ELSE {[ns |-> "amrex", name |-> "divergence"]})
    \cup (IF path = P2 THEN {[ns |-> "boxlib", name |-> "vorticity_z"]} ELSE {})

\* yt_ds.domain_dimensions: yt keeps three entries, the third is 1 in 2D
DomainDimensions(dim) == IF dim = 3 THEN <<NX, NX, NX>> ELSE <<NX, NX, 1>>

\* yt_ds.domain_left_edge and domain_right_edge on every axis, in hundredths
\* of the length unit
DomainLeft == -200
DomainRight == 200

----------------------------------------------------------------------------
(* Sequences *)

Range(f) == {f[i] : i \in DOMAIN f}

SeqsUpTo(S, n) == UNION {[1..k -> S] : k \in 0..n}

Perms(n) == {p \in [1..n -> 1..n] : \A i, j \in 1..n : i # j => p[i] # p[j]}

IdentityPerm(n) == [i \in 1..n |-> i]

Permute(s, p) == [i \in 1..Len(p) |-> s[p[i]]]

SubSeqFrom(s, k) == [i \in 1..(Len(s) - k + 1) |-> s[i + k - 1]]

----------------------------------------------------------------------------
(* glob.glob and sorted, on paths *)

IsPatternStarOnly(filename) == \E i \in 1..Len(filename) : filename[i] = "*"

\* '*' in filename or '?' in filename
IsPattern(filename) == \E i \in 1..Len(filename) : filename[i] \in {"*", "?"}

RECURSIVE GlobMatch(_, _)
GlobMatch(pat, name) ==
    IF pat = <<>> THEN name = <<>>
    ELSE IF Head(pat) = "*"
         THEN GlobMatch(Tail(pat), name)
              \/ (name # <<>> /\ GlobMatch(pat, Tail(name)))
    ELSE IF Head(pat) = "?"
         THEN name # <<>> /\ GlobMatch(Tail(pat), Tail(name))
    ELSE name # <<>> /\ Head(name) = Head(pat)
         /\ GlobMatch(Tail(pat), Tail(name))

Glob(pattern) == {f \in Disk : GlobMatch(pattern, f)}

\* the code point order of the characters used
CharRank(c) ==
    CASE c = "*" -> 42 [] c = "1" -> 49 [] c = "2" -> 50 [] c = "3" -> 51
      [] c = "?" -> 63 [] c = "p" -> 112 [] c = "q" -> 113 [] OTHER -> 0

RECURSIVE StrLess(_, _)
StrLess(a, b) ==
    IF b = <<>> THEN FALSE
    ELSE IF a = <<>> THEN TRUE
    ELSE IF Head(a) # Head(b) THEN CharRank(Head(a)) < CharRank(Head(b))
    ELSE StrLess(Tail(a), Tail(b))

RECURSIVE Sorted(_)
Sorted(S) ==
    IF S = {} THEN <<>>
    ELSE LET m == CHOOSE x \in S : \A y \in S \ {x} : StrLess(x, y)
         IN <<m>> \o Sorted(S \ {m})

----------------------------------------------------------------------------
(* numpy.argsort with its default kind: the result sorts the values; the   *)
(* default kind ('quicksort') is not a stable sort, so among equal values  *)
(* every order is a possible result.                                       *)

ArgSortIdentity(t) == {IdentityPerm(Len(t))}

ArgSort(t) ==
    {p \in Perms(Len(t)) : \A i, j \in 1..Len(t) : i < j => t[p[i]] <= t[p[j]]}

----------------------------------------------------------------------------
(* Values returned and exceptions raised *)

None == [kind |-> "none", val |-> <<>>]

Return(kind, val) == [kind |-> kind, val |-> val]

Raise(exc, text, arg, got) ==
    [kind |-> "raise", val |-> [exc |-> exc, text |-> text, arg |-> arg, got |-> got]]

Raised(exc) == ret.kind = "raise" /\ ret.val.exc = exc

----------------------------------------------------------------------------
(* The engine: grids and their data *)

\* yt_ds.covering_grid(level, left_edge, dims, num_ghost_zones)
CoveringGrid(snap, level, dims, ghost) ==
    [snap |-> snap, level |-> level, dims |-> dims, ghost |-> ghost]

\* np.array(grid[field]): an array of the grid's dims, one cell per index
GridData(grid, field) ==
    [shape |-> grid.dims,
     v |-> [x \in 1..grid.dims[1] |-> [y \in 1..grid.dims[2] |->
              [z \in 1..grid.dims[3] |->
                 [s |-> grid.snap, f |-> field, l |-> grid.level,
                  i |-> <<x - 1, y - 1, z - 1>>]]]]]

\* obj[field] on a grid or a selection, as the engine sees it: `by` is the
\* DataArray on whose behalf it is made (0 for the Dataset), ok is FALSE when
\* the engine raises instead of returning the values
Read(by, on, field, ok) == [by |-> by, on |-> on, field |-> field, ok |-> ok]

\* yt_ds.all_data()
AllData(snap) == [kind |-> "all_data", snap |-> snap, left |-> <<>>, right |-> <<>>]

----------------------------------------------------------------------------
(* AMReXDataset.__init__ *)

StrInput(s) == [kind |-> "str", s |-> s, l |-> <<>>]
ListInput(l) == [kind |-> "list", s |-> <<>>, l |-> l]

\* lines 48-57: the files to load, or the pattern that matched nothing
ResolveFiles(filename) ==
    IF filename.kind = "str"
    THEN IF IsPattern(filename.s)
         THEN [ok |-> Glob(filename.s) # {}, files |-> Sorted(Glob(filename.s))]
         ELSE [ok |-> TRUE, files |-> <<filename.s>>]
    ELSE [ok |-> TRUE, files |-> filename.l]

CoordNames(dim) == SubSeq(<<"x", "y", "z">>, 1, dim)

Reverse(s) == [i \in 1..Len(s) |-> s[Len(s) + 1 - i]]

AxisIndex(d) == CASE d = "x" -> 1 [] d = "y" -> 2 [] d = "z" -> 3

HasTimeAxisFromOne(times) == Len(times) >= 1

\* line 103: len(self._times) > 1
HasTimeAxis(times) == Len(times) > 1

\* _build_coordinates: self.dims
BuildDims(times, dim) ==
    (IF HasTimeAxis(times) THEN <<"time">> ELSE <<>>) \o Reverse(CoordNames(dim))

\* _build_coordinates: self.coords
BuildCoords(times, dim, grid0) ==
    LET names == Range(CoordNames(dim))
        keys == (IF HasTimeAxis(times) THEN {"time"} ELSE {})
                \cup names \cup {d \o "_range" : d \in names} \cup {"levels"}
    IN [k \in keys |->
          IF k = "time" THEN times
          ELSE IF k = "levels" THEN [i \in 1..(MaxLevel + 1) |-> i - 1]
          ELSE IF k \in names THEN GridData(grid0, [ns |-> "index", name |-> k])
          ELSE <<DomainLeft, DomainRight>>]

IsAMReXField(field) == field.ns \in {"boxlib", "amrex"}

\* _build_data_vars, from the field_list of the reference snapshot
BuildDataVars(field_list, dim) ==
    LET native == {f \in field_list : IsAMReXField(f)}
        names == {f.name : f \in native} \cup Range(CoordNames(dim))
    IN [n \in names |->
          IF \E f \in native : f.name = n
          THEN CHOOSE f \in native : f.name = n
          ELSE [ns |-> "index", name |-> n]]

NoDataset == [files |-> <<>>]

FailConstruct(exc, newloads) ==
    /\ pc' = "failed"
    /\ ds' = NoDataset
    /\ loads' = newloads
    /\ ret' = exc
    /\ UNCHANGED <<dimensionality, grids, engine, reads, arrays>>

Construct(filename) ==
    /\ pc = "start"
    /\ last' = [op |-> "construct", arg |-> filename]
    /\ LET r == ResolveFiles(filename)
           files == r.files
           n == Len(files)
           missing == {i \in 1..n : files[i] \notin Disk}
       IN IF ~r.ok
          THEN FailConstruct(Raise("FileNotFoundError",
                                   "No files found matching pattern: ", filename.s, 0),
                             loads)
          ELSE IF missing # {}
          THEN \* yt.load raises on the first path that does not exist
               LET k == CHOOSE i \in missing : \A j \in missing : i <= j
               IN FailConstruct(Raise("FileNotFoundError",
                                      "No such file or directory: ", files[k], 0),
                                loads \o SubSeq(files, 1, k))
          ELSE IF n = 0
          THEN \* line 76: self._yt_datasets[0] of an empty list
               FailConstruct(Raise("IndexError", "list index out of range", <<>>, 0),
                             loads)
          ELSE \E sorted_indices \in ArgSort([i \in 1..n |-> FileTime(files[i])]) :
               LET snaps == [i \in 1..n |-> Len(loads) + i]
                   times == [i \in 1..n |-> FileTime(files[i])]
                   yt_datasets == Permute(snaps, sorted_indices)
                   coarsest == [i \in 1..n |->
                                  CoveringGrid(yt_datasets[i], 0,
                                               DomainDimensions(dimensionality), 1)]
               IN /\ pc' = "ready"
                  /\ loads' = loads \o files
                  /\ grids' = grids \o coarsest
                  \* line 121: coarsest_grid[('index', dim)] for each axis
                  /\ reads' = reads \o
                        [d \in 1..dimensionality |->
                           Read(0, coarsest[1],
                                [ns |-> "index", name |-> CoordNames(dimensionality)[d]],
                                TRUE)]
                  /\ engine' = [s \in 1..n |->
                                  [fields |-> FieldList(files[s]), derived |-> {},
                                   gradcalls |-> <<>>, addcalls |-> <<>>]]
                  /\ ds' = [files |-> Permute(files, sorted_indices),
                            times |-> Permute(times, sorted_indices),
                            yt_datasets |-> yt_datasets,
                            yt_ds |-> yt_datasets[1],
                            all_data |-> [i \in 1..n |-> AllData(yt_datasets[i])],
                            coarsest_grids |-> coarsest,
                            coords |-> BuildCoords(Permute(times, sorted_indices),
                                                   dimensionality, coarsest[1]),
                            dims |-> BuildDims(Permute(times, sorted_indices),
                                               dimensionality),
                            data_vars |-> BuildDataVars(FieldList(files[sorted_indices[1]]),
                                                       dimensionality)]
                  /\ ret' = None
                  /\ UNCHANGED <<dimensionality, arrays>>

----------------------------------------------------------------------------
(* AMReXDataArray.__init__ and AMReXDataset.__getitem__ *)

NoSelection == [kind |-> "none", snap |-> 0, left |-> <<>>, right |-> <<>>]

NewDataArrayWholeDomain(data_vars, all_data, field_name, selection_obj) ==
    [field_name |-> field_name,
     field_tuple |-> data_vars[field_name],
     selection_obj |-> all_data[1],
     data |-> <<>>,
     coarsest_data |-> <<>>]

NewDataArrayLastSnapshot(data_vars, all_data, field_name, selection_obj) ==
    [field_name |-> field_name,
     field_tuple |-> data_vars[field_name],
     selection_obj |-> IF selection_obj = NoSelection THEN all_data[Len(all_data)]
                       ELSE selection_obj,
     data |-> <<>>,
     coarsest_data |-> <<>>]

\* lines 188-195; data and coarsest_data are <<>> for None, <<value>> once set
NewDataArray(data_vars, all_data, field_name, selection_obj) ==
    [field_name |-> field_name,
     field_tuple |-> data_vars[field_name],
     selection_obj |-> IF selection_obj = NoSelection THEN all_data[1]
                       ELSE selection_obj,
     data |-> <<>>,
     coarsest_data |-> <<>>]

KnownField(field_name) == field_name \in DOMAIN ds.data_vars

\* lines 138-142
DatasetGetitem(field_name) ==
    /\ pc = "ready"
    /\ last' = [op |-> "ds_getitem", arg |-> field_name]
    /\ IF ~KnownField(field_name)
       THEN /\ ret' = Raise("KeyError", "Field not found", field_name, 0)
            /\ UNCHANGED arrays
       ELSE /\ Len(arrays) < MaxArrays
            /\ arrays' = Append(arrays,
                                NewDataArray(ds.data_vars, ds.all_data,
                                             field_name, NoSelection))
            /\ ret' = Return("dataarray", Len(arrays) + 1)
    /\ UNCHANGED <<dimensionality, pc, ds, loads, grids, engine, reads>>

----------------------------------------------------------------------------
(* AMReXCalculations *)

GradientNameSwapped(field, dim) == dim \o "_gradient_" \o field

\* line 446: f"{field}_gradient_{dim}"
GradientName(field, dim) == field \o "_gradient_" \o dim

IsValidDimAny(dim) == TRUE

\* line 442, negated: dim in ['x', 'y', 'z']
IsValidDim(dim) == dim \in {"x", "y", "z"}

\* the fields yt's add_gradient_fields registers for one base field
GradientFields(field_tuple) ==
    {[ns |-> field_tuple.ns, name |-> GradientName(field_tuple.name, ax)] :
        ax \in {"x", "y", "z", "magnitude"}}

\* yt_ds.add_gradient_fields(field_tuple) on one snapshot
AddGradientFields(e, field_tuple) ==
    [e EXCEPT !.derived = @ \cup GradientFields(field_tuple),
              !.gradcalls = Append(@, field_tuple)]

\* yt_ds.derived_field_list: every field the snapshot can produce
DerivedFieldList(e) ==
    e.fields
    \cup {[ns |-> "index", name |-> d] : d \in {"x", "y", "z"}}
    \cup e.derived

\* add_gradient_fields for each base field in turn on one snapshot; the engine
\* raises KeyError for a base field the snapshot does not have
RECURSIVE AddGradientsOne(_, _)
AddGradientsOne(e, bases) ==
    IF bases = <<>> THEN [ok |-> TRUE, e |-> e]
    ELSE IF Head(bases) \notin DerivedFieldList(e) THEN [ok |-> FALSE, e |-> e]
    ELSE AddGradientsOne(AddGradientFields(e, Head(bases)), Tail(bases))

\* "for yt_ds in self.ds._yt_datasets: yt_ds.add_gradient_fields(...)": the
\* snapshots in Dataset order, up to and including the first that raises
GradientLoopOn(eng, bases) ==
    LET n == Len(ds.yt_datasets)
        res == [s \in DOMAIN eng |-> AddGradientsOne(eng[s], bases)]
        failing == {i \in 1..n : ~res[ds.yt_datasets[i]].ok}
        stop == IF failing = {} THEN n
                ELSE CHOOSE i \in failing : \A j \in failing : i <= j
        reached == {ds.yt_datasets[i] : i \in 1..stop}
    IN [ok |-> failing = {},
        engine |-> [s \in DOMAIN eng |->
                      IF s \in reached THEN res[s].e ELSE eng[s]]]

\* the same loop inside a calc method, on the engine as the call finds it
GradientLoop(bases) == GradientLoopOn(engine, bases)

AddDerivedFieldAlways(e, field_name_tuple, recipe) ==
    [e EXCEPT !.derived = @ \cup {field_name_tuple},
              !.addcalls = Append(@, [field |-> field_name_tuple, recipe |-> recipe,
                                      known |-> DerivedFieldList(e)])]

\* lines 434-438, on one snapshot; the log entry of the add_field call keeps the
\* function passed and the fields the snapshot could produce at that moment
AddDerivedField(e, field_name_tuple, recipe) ==
    IF field_name_tuple \notin DerivedFieldList(e)
    THEN [e EXCEPT !.derived = @ \cup {field_name_tuple},
                   !.addcalls = Append(@, [field |-> field_name_tuple,
                                           recipe |-> recipe,
                                           known |-> DerivedFieldList(e)])]
    ELSE e

SetAlways(data_vars, name, tuple) ==
    [n \in DOMAIN data_vars \cup {name} |-> IF n = name THEN tuple ELSE data_vars[n]]

\* "if name not in self.ds.data_vars: self.ds.data_vars[name] = tuple"
SetDefault(data_vars, name, tuple) ==
    IF name \in DOMAIN data_vars THEN data_vars
    ELSE [n \in DOMAIN data_vars \cup {name} |->
            IF n = name THEN tuple ELSE data_vars[n]]

CalcReturn(data_vars, name) ==
    /\ Len(arrays) < MaxArrays
    /\ ds' = [ds EXCEPT !.data_vars = data_vars]
    /\ arrays' = Append(arrays, NewDataArray(data_vars, ds.all_data, name, NoSelection))
    /\ ret' = Return("dataarray", Len(arrays) + 1)

\* room in the engine's call log for the two calls one method makes at most
CallBudget == \A s \in DOMAIN engine : Len(engine[s].gradcalls) + 2 <= MaxGradCalls

CalcRaiseLeavesEntry(exc) ==
    /\ ret' = exc
    /\ ds' = [ds EXCEPT !.data_vars =
                 SetAlways(@, "failed", [ns |-> "boxlib", name |-> "failed"])]
    /\ UNCHANGED arrays

\* an exception leaves the method: nothing is added to data_vars, no DataArray
\* is made
CalcRaise(exc) ==
    /\ ret' = exc
    /\ UNCHANGED <<ds, arrays>>

EngineKeyError == Raise("KeyError", "engine: field not found", "", 0)

\* lines 440-458
Gradient(field, dim) ==
    /\ pc = "ready"
    /\ CallBudget
    /\ last' = [op |-> "gradient", arg |-> <<field, dim>>]
    /\ IF ~IsValidDim(dim)
       THEN CalcRaise(Raise("ValueError", "Invalid dimension: ", dim, 0))
            /\ UNCHANGED engine
       ELSE IF field \notin DOMAIN ds.data_vars
       THEN CalcRaise(Raise("KeyError", "", field, 0)) /\ UNCHANGED engine
       ELSE LET field_tuple == ds.data_vars[field]
                grad_field_name == GradientName(field, dim)
                grad_field_tuple == [ns |-> field_tuple.ns, name |-> grad_field_name]
                loop == GradientLoop(<<field_tuple>>)
            IN /\ engine' = loop.engine
               /\ IF loop.ok
                  THEN CalcReturn(SetDefault(ds.data_vars, grad_field_name,
                                             grad_field_tuple),
                                  grad_field_name)
                  ELSE CalcRaise(EngineKeyError)
    /\ UNCHANGED <<dimensionality, pc, loads, grids, reads>>

\* lines 460-498; w_field = "" stands for None
Divergence(u_field, v_field, w_field) ==
    /\ pc = "ready"
    /\ CallBudget
    /\ last' = [op |-> "divergence", arg |-> <<u_field, v_field, w_field>>]
    /\ IF u_field \notin DOMAIN ds.data_vars
       THEN CalcRaise(Raise("KeyError", "", u_field, 0)) /\ UNCHANGED engine
       ELSE IF v_field \notin DOMAIN ds.data_vars
       THEN CalcRaise(Raise("KeyError", "", v_field, 0)) /\ UNCHANGED engine
       ELSE LET div_field_tuple == [ns |-> "boxlib", name |-> "divergence"]
                u_field_tuple == ds.data_vars[u_field]
                v_field_tuple == ds.data_vars[v_field]
                recipe == [kind |-> "divergence",
                           a |-> [ns |-> u_field_tuple.ns,
                                  name |-> GradientName(u_field, "x")],
                           b |-> [ns |-> v_field_tuple.ns,
                                  name |-> GradientName(v_field, "y")],
                           w |-> w_field]
                loop == GradientLoop(<<u_field_tuple, v_field_tuple>>)
            IN IF loop.ok
               THEN /\ engine' = [s \in DOMAIN engine |->
                                    AddDerivedField(loop.engine[s], div_field_tuple,
                                                    recipe)]
                    /\ CalcReturn(SetDefault(ds.data_vars, "divergence",
                                             div_field_tuple),
                                  "divergence")
               ELSE /\ engine' = loop.engine
                    /\ CalcRaise(EngineKeyError)
    /\ UNCHANGED <<dimensionality, pc, loads, grids, reads>>

\* lines 500-529
Vorticity(u_field, v_field) ==
    /\ pc = "ready"
    /\ CallBudget
    /\ last' = [op |-> "vorticity", arg |-> <<u_field, v_field>>]
    /\ IF u_field \notin DOMAIN ds.data_vars
       THEN CalcRaise(Raise("KeyError", "", u_field, 0)) /\ UNCHANGED engine
       ELSE IF v_field \notin DOMAIN ds.data_vars
       THEN CalcRaise(Raise("KeyError", "", v_field, 0)) /\ UNCHANGED engine
       ELSE LET vort_field_tuple == [ns |-> "boxlib", name |-> "vorticity_z"]
                u_field_tuple == ds.data_vars[u_field]
                v_field_tuple == ds.data_vars[v_field]
                recipe == [kind |-> "vorticity",
                           a |-> [ns |-> v_field_tuple.ns,
                                  name |-> GradientName(v_field, "x")],
                           b |-> [ns |-> u_field_tuple.ns,
                                  name |-> GradientName(u_field, "y")],
                           w |-> ""]
                loop == GradientLoop(<<u_field_tuple, v_field_tuple>>)
            IN IF loop.ok
               THEN /\ engine' = [s \in DOMAIN engine |->
                                    AddDerivedField(loop.engine[s], vort_field_tuple,
                                                    recipe)]
                    /\ CalcReturn(SetDefault(ds.data_vars, "vorticity_z",
                                             vort_field_tuple),
                                  "vorticity_z")
               ELSE /\ engine' = loop.engine
                    /\ CalcRaise(EngineKeyError)
    /\ UNCHANGED <<dimensionality, pc, loads, grids, reads>>

----------------------------------------------------------------------------
(* The engine evaluating a registered recipe *)

\* whether the field of snapshot state e was registered with add_field
HasRecipe(e, field) == \E j \in 1..Len(e.addcalls) : e.addcalls[j].field = field

\* the add_field call that registered it
Registration(e, field) ==
    e.addcalls[CHOOSE j \in 1..Len(e.addcalls) : e.addcalls[j].field = field]

NoValue == [op |-> "none", terms |-> <<>>]

\* lines 516-517: data[v_grad_x_tuple] - data[u_grad_y_tuple]
VorticityFunction(eng, s, recipe) ==
    IF {recipe.a, recipe.b} \subseteq DerivedFieldList(eng[s])
    THEN [ok |-> TRUE, engine |-> eng,
          value |-> [op |-> "difference", terms |-> <<recipe.a, recipe.b>>]]
    ELSE [ok |-> FALSE, engine |-> eng, value |-> NoValue]

\* lines 476-486, called by the engine for snapshot s while the Dataset's
\* data_vars is data_vars: the sum of the two gradients, and for a w_field on
\* a 3-dimensional Dataset the lookup of w_field in data_vars, the gradient
\* registration of w on every snapshot and the third term
DivergenceFunction(eng, s, recipe, data_vars) ==
    IF ~({recipe.a, recipe.b} \subseteq DerivedFieldList(eng[s]))
    THEN [ok |-> FALSE, engine |-> eng, value |-> NoValue]
    ELSE IF recipe.w # "" /\ dimensionality = 3
    THEN IF recipe.w \notin DOMAIN data_vars
         THEN [ok |-> FALSE, engine |-> eng, value |-> NoValue]
         ELSE LET w_field_tuple == data_vars[recipe.w]
                  loop == GradientLoopOn(eng, <<w_field_tuple>>)
                  w_grad_z_tuple == [ns |-> w_field_tuple.ns,
                                     name |-> GradientName(recipe.w, "z")]
              IN IF loop.ok /\ w_grad_z_tuple \in DerivedFieldList(loop.engine[s])
                 THEN [ok |-> TRUE, engine |-> loop.engine,
                       value |-> [op |-> "sum",
                                  terms |-> <<recipe.a, recipe.b, w_grad_z_tuple>>]]
                 ELSE [ok |-> FALSE, engine |-> loop.engine, value |-> NoValue]
    ELSE [ok |-> TRUE, engine |-> eng,
          value |-> [op |-> "sum", terms |-> <<recipe.a, recipe.b>>]]

\* function(field, data): the engine calls the function it was given
EvalRecipe(eng, s, recipe, data_vars) ==
    IF recipe.kind = "divergence" THEN DivergenceFunction(eng, s, recipe, data_vars)
    ELSE VorticityFunction(eng, s, recipe)

\* obj[field] on a grid or selection of snapshot s: a stored field and a field
\* of the engine's own are read; a field registered with add_field is computed
\* by its function; any other field raises
ReadField(eng, s, field) ==
    IF field \notin DerivedFieldList(eng[s])
    THEN [ok |-> FALSE, engine |-> eng, value |-> NoValue]
    ELSE IF HasRecipe(eng[s], field)
    THEN EvalRecipe(eng, s, Registration(eng[s], field).recipe, ds.data_vars)
    ELSE [ok |-> TRUE, engine |-> eng, value |-> [op |-> "field", terms |-> <<field>>]]

\* the engine after the reads of a log, made in order
RECURSIVE AfterReads(_, _)
AfterReads(eng, rs) ==
    IF rs = <<>> THEN eng
    ELSE AfterReads(ReadField(eng, Head(rs).on.snap, Head(rs).field).engine, Tail(rs))

\* what a call that reads fields leaves in the engine: the reads it has added
\* to the log, within the room of the engine's call log
EngineReads ==
    /\ engine' = AfterReads(engine, SubSeq(reads', Len(reads) + 1, Len(reads')))
    /\ \A s \in DOMAIN engine : Len(engine'[s].gradcalls) <= MaxGradCalls

----------------------------------------------------------------------------
(* Python slices and numpy basic indexing *)

\* an index is an integer or a slice; start, stop and step are <<>> for None
I(i) == [k |-> "int", i |-> i, start |-> <<>>, stop |-> <<>>, step |-> <<>>]
S(start, stop, step) == [k |-> "slice", i |-> 0, start |-> start, stop |-> stop, step |-> step]
All == S(<<>>, <<>>, <<>>)

Max(a, b) == IF a >= b THEN a ELSE b
Min(a, b) == IF a <= b THEN a ELSE b

\* slice.indices(n), for a step that is not 0
SliceIndices(sl, n) ==
    LET step == IF sl.step = <<>> THEN 1 ELSE sl.step[1]
        lower == IF step < 0 THEN -1 ELSE 0
        upper == IF step < 0 THEN n - 1 ELSE n
        clip(x) == IF x < 0 THEN Max(x + n, lower) ELSE Min(x, upper)
        start == IF sl.start = <<>> THEN (IF step < 0 THEN upper ELSE lower)
                 ELSE clip(sl.start[1])
        stop == IF sl.stop = <<>> THEN (IF step < 0 THEN lower ELSE upper)
                ELSE clip(sl.stop[1])
    IN <<start, stop, step>>

\* list(range(start, stop, step))
PyRange(r) ==
    LET start == r[1]
        stop == r[2]
        step == r[3]
        len == IF step > 0
               THEN (IF stop > start THEN (stop - start + step - 1) \div step ELSE 0)
               ELSE (IF start > stop THEN (start - stop - step - 1) \div (-step) ELSE 0)
    IN [j \in 1..len |-> start + (j - 1) * step]

SliceRange(sl, n) == PyRange(SliceIndices(sl, n))

\* x[i] of a sequence of length n: a negative index counts from the end
InRange(i, n) == -n <= i /\ i < n
Norm(i, n) == IF i < 0 THEN i + n ELSE i

\* whether numpy accepts the key for an array of this shape
RECURSIVE NpIndexOK(_, _)
NpIndexOK(shape, key) ==
    IF key = <<>> THEN TRUE
    ELSE IF shape = <<>> THEN FALSE
    ELSE /\ IF Head(key).k = "int" THEN InRange(Head(key).i, Head(shape))
            ELSE Head(key).step # <<0>>
         /\ NpIndexOK(Tail(shape), Tail(key))

RECURSIVE NpShape(_, _)
NpShape(shape, key) ==
    IF key = <<>> THEN shape
    ELSE IF Head(key).k = "int" THEN NpShape(Tail(shape), Tail(key))
    ELSE <<Len(SliceRange(Head(key), Head(shape)))>> \o NpShape(Tail(shape), Tail(key))

RECURSIVE NpSub(_, _, _)
NpSub(v, shape, key) ==
    IF key = <<>> THEN v
    ELSE IF Head(key).k = "int"
         THEN NpSub(v[Norm(Head(key).i, Head(shape)) + 1], Tail(shape), Tail(key))
    ELSE LET r == SliceRange(Head(key), Head(shape))
         IN [j \in 1..Len(r) |-> NpSub(v[r[j] + 1], Tail(shape), Tail(key))]

\* a[key] of an array, for a key numpy accepts
NpIndex(a, key) == [shape |-> NpShape(a.shape, key), v |-> NpSub(a.v, a.shape, key)]

\* np.array(list of arrays of one shape)
NpStack(list) ==
    [shape |-> <<Len(list)>> \o (IF list = <<>> THEN <<>> ELSE list[1].shape),
     v |-> [j \in 1..Len(list) |-> list[j].v]]

NumpyIndexError == Raise("IndexError", "numpy: invalid index", 0, 0)
ListIndexError == Raise("IndexError", "list index out of range", 0, 0)

----------------------------------------------------------------------------
(* AMReXDataArray: the coarsest cache, __getitem__, shape, values *)

\* grid[field]: the engine raises KeyError for a field the snapshot cannot produce
Readable(grid, field) == ReadField(engine, grid.snap, field).ok

FirstIndex(seq, x) == CHOOSE j \in 1..Len(seq) : seq[j] = x /\ \A m \in 1..(j - 1) : seq[m] # x

\* _load_coarsest_data from grid i on: the arrays appended to the cache, the fresh
\* grids built, the reads made, and whether the loop ended without raising
RECURSIVE LoadFrom(_, _, _, _, _)
LoadFrom(i, field, cache, built, made) ==
    IF i > Len(ds.coarsest_grids)
    THEN [ok |-> TRUE, cache |-> cache, built |-> built, reads |-> made]
    ELSE LET coarsest_grid == ds.coarsest_grids[i]
         IN IF Readable(coarsest_grid, field)
            THEN LoadFrom(i + 1, field, Append(cache, GridData(coarsest_grid, field)),
                          built, Append(made, Read(0, coarsest_grid, field, TRUE)))
            ELSE LET yt_ds_idx == FirstIndex(ds.coarsest_grids, coarsest_grid)
                     fresh_grid == CoveringGrid(ds.yt_datasets[yt_ds_idx], 0,
                                                DomainDimensions(dimensionality), 1)
                     tried == Append(made, Read(0, coarsest_grid, field, FALSE))
                 IN IF Readable(fresh_grid, field)
                    THEN LoadFrom(i + 1, field,
                                  Append(cache, GridData(fresh_grid, field)),
                                  Append(built, fresh_grid),
                                  Append(tried, Read(0, fresh_grid, field, TRUE)))
                    ELSE [ok |-> FALSE, cache |-> cache,
                          built |-> Append(built, fresh_grid),
                          reads |-> Append(tried, Read(0, fresh_grid, field, FALSE))]

LoadCoarsestData(field) == LoadFrom(1, field, <<>>, <<>>, <<>>)

FieldNotFound(field) ==
    Raise("KeyError", "Field not found in dataset", field.name, 0)

TooManyIndices(expected, got) ==
    Raise("IndexError", "Too many indices. Expected at most ", expected, got)

\* cache[t][spatial_key], or cache[t] for an empty spatial key
Pick(cache, t, spatial_key) ==
    IF spatial_key # <<>> THEN NpIndex(cache[t + 1], spatial_key) ELSE cache[t + 1]

ExpectedDimsNoTime(n_spatial_dims) == n_spatial_dims

\* line 221: expected_dims = 1 + n_spatial_dims
ExpectedDims(n_spatial_dims) == 1 + n_spatial_dims

\* lines 211-253, on a cache that is present
Index(cache, key) ==
    LET has_time == Len(ds.times) > 1
        n_spatial_dims == dimensionality
    IN IF has_time
       THEN IF Len(key) > ExpectedDims(n_spatial_dims)
            THEN TooManyIndices(ExpectedDims(n_spatial_dims), Len(key))
            ELSE LET time_idx == IF Len(key) > 0 THEN key[1] ELSE All
                     spatial_key == IF Len(key) > 1 THEN Tail(key) ELSE <<>>
                 IN IF time_idx.k = "slice"
                    THEN LET ts == SliceRange(time_idx, Len(cache))
                         IN IF \E j \in 1..Len(ts) :
                                  ~NpIndexOK(cache[ts[j] + 1].shape, spatial_key)
                            THEN NumpyIndexError
                            ELSE Return("array",
                                        NpStack([j \in 1..Len(ts) |->
                                                   Pick(cache, ts[j], spatial_key)]))
                    ELSE IF ~InRange(time_idx.i, Len(cache)) THEN ListIndexError
                    ELSE LET t == Norm(time_idx.i, Len(cache))
                         IN IF ~NpIndexOK(cache[t + 1].shape, spatial_key)
                            THEN NumpyIndexError
                            ELSE Return("array", Pick(cache, t, spatial_key))
       ELSE IF Len(key) > n_spatial_dims
            THEN TooManyIndices(n_spatial_dims, Len(key))
            ELSE IF cache = <<>> THEN ListIndexError
            ELSE IF ~NpIndexOK(cache[1].shape, key) THEN NumpyIndexError
            ELSE Return("array", NpIndex(cache[1], key))

EnsureLoadedAlways(a) == LoadCoarsestData(arrays[a].field_tuple)

\* "if self._coarsest_data is None: self._load_coarsest_data()": the cache the
\* rest of the call reads, the grids the load built and whether it succeeded
EnsureLoaded(a) ==
    IF arrays[a].coarsest_data # <<>>
    THEN [ok |-> TRUE, cache |-> arrays[a].coarsest_data[1], built |-> <<>>,
          reads |-> <<>>]
    ELSE LoadCoarsestData(arrays[a].field_tuple)

\* a call that starts with that load and then returns `result`, computed from
\* the cache; a failed load leaves what it had appended
WithCoarsestData(a, result) ==
    LET load == EnsureLoaded(a)
    IN /\ Len(grids) + Len(load.built) <= MaxGridRounds * Len(ds.yt_datasets)
       /\ arrays' = [arrays EXCEPT ![a].coarsest_data = <<load.cache>>]
       /\ grids' = grids \o load.built
       /\ reads' = reads \o [j \in 1..Len(load.reads) |->
                                [load.reads[j] EXCEPT !.by = a]]
       /\ ret' = IF load.ok THEN result
                 ELSE FieldNotFound(arrays[a].field_tuple)

\* a key that is not a tuple is wrapped: key = (key,)
KeyTuple(key) == IF key.tuple THEN key.items ELSE <<key.items[1]>>

\* lines 197-253
ArrayGetitem(a, key) ==
    /\ pc = "ready"
    /\ a \in 1..Len(arrays)
    /\ last' = [op |-> "arr_getitem", arg |-> [a |-> a, key |-> key]]
    /\ WithCoarsestData(a, Index(EnsureLoaded(a).cache, KeyTuple(key)))
    /\ EngineReads
    /\ UNCHANGED <<dimensionality, pc, ds, loads>>

ShapeOf(cache) ==
    IF cache = <<>> THEN ListIndexError
    ELSE IF Len(ds.times) > 1
    THEN Return("tuple", <<Len(cache)>> \o cache[1].shape)
    ELSE Return("tuple", cache[1].shape)

\* lines 304-315
Shape(a) ==
    /\ pc = "ready"
    /\ a \in 1..Len(arrays)
    /\ last' = [op |-> "shape", arg |-> [a |-> a, key |-> <<>>]]
    /\ WithCoarsestData(a, ShapeOf(EnsureLoaded(a).cache))
    /\ EngineReads
    /\ UNCHANGED <<dimensionality, pc, ds, loads>>

RefineBy == 2

RECURSIVE Power(_, _)
Power(b, e) == IF e = 0 THEN 1 ELSE b * Power(b, e - 1)

LevelDimsUnscaled(level) == DomainDimensions(dimensionality)

\* line 412: yt_ds.domain_dimensions * yt_ds.refine_by**level
LevelDims(level) ==
    [i \in 1..3 |-> DomainDimensions(dimensionality)[i] * Power(RefineBy, level)]

\* lines 395-403
Level0Values(cache) ==
    IF Len(ds.times) > 1 THEN Return("array", NpStack(cache))
    ELSE IF cache = <<>> THEN ListIndexError
    ELSE Return("array", cache[1])

LevelOrLast(level) == IF level = <<>> THEN MaxLevel ELSE level[1]

\* lines 391-392: "if level is None: level = 0"; level = <<>> stands for None
LevelOrZero(level) == IF level = <<>> THEN 0 ELSE level[1]

\* line 394, negated: 0 <= level <= self.parent._yt_ds.max_level
LevelInRange(lv) == ~(lv < 0 \/ lv > MaxLevel)

\* lines 391-425: what values(level) does on DataArray a
ValuesCall(a, level) ==
    LET lv == LevelOrZero(level)
        arr == arrays[a]
        n == Len(ds.yt_datasets)
        level_data == [i \in 1..n |-> CoveringGrid(ds.yt_datasets[i], lv, LevelDims(lv), 1)]
        bad == {i \in 1..n : ~Readable(level_data[i], arr.field_tuple)}
        stop == IF bad = {} THEN n ELSE CHOOSE i \in bad : \A j \in bad : i <= j
        result == [i \in 1..n |-> GridData(level_data[i], arr.field_tuple)]
    IN IF ~LevelInRange(lv)
       THEN /\ ret' = Raise("ValueError", "Level is out of range", lv, MaxLevel)
            /\ UNCHANGED <<arrays, grids, reads>>
       ELSE IF lv = 0
       THEN WithCoarsestData(a, Level0Values(EnsureLoaded(a).cache))
       ELSE /\ Len(grids) + stop <= MaxGridRounds * Len(ds.yt_datasets)
            /\ grids' = grids \o SubSeq(level_data, 1, stop)
            /\ reads' = reads \o [i \in 1..stop |->
                                     Read(a, level_data[i], arr.field_tuple,
                                          i \notin bad)]
            /\ ret' = IF bad # {}
                      THEN Raise("KeyError", "Field not found at level",
                                 arr.field_tuple.name, lv)
                      ELSE IF Len(ds.times) > 1
                      THEN Return("array", NpStack(result))
                      ELSE Return("array", result[1])
            /\ UNCHANGED arrays

\* lines 375-425
Values(a, level) ==
    /\ pc = "ready"
    /\ a \in 1..Len(arrays)
    /\ last' = [op |-> "values", arg |-> [a |-> a, key |-> level]]
    /\ ValuesCall(a, level)
    /\ EngineReads
    /\ UNCHANGED <<dimensionality, pc, ds, loads>>

----------------------------------------------------------------------------
(* AMReXDataArray: data, the reductions, and the selections *)

\* yt_ds.region(left_edge, right_edge), as the code calls it
Region(snap, left_edge, right_edge) ==
    [kind |-> "region", snap |-> snap, left |-> left_edge, right |-> right_edge]

\* yt_ds.r[:]
RSlice(snap) == [kind |-> "r", snap |-> snap, left |-> <<>>, right |-> <<>>]

\* the refinement levels whose cells a selection holds: all_data(), region(...)
\* and r[:] select by position only
SelectionLevels(sel) == 0..MaxLevel

SelectionReadWhole(arr) == [sel |-> ds.all_data[1], f |-> arr.field_tuple]

\* line 288: self._selection_obj[self._field_tuple]
SelectionRead(arr) == [sel |-> arr.selection_obj, f |-> arr.field_tuple]

\* whether the engine can produce the field on the selection's snapshot
Selectable(sel, field) == ReadField(engine, sel.snap, field).ok

DataIsNoneAlways(arr) == TRUE

\* line 287: self._data is None
DataIsNone(arr) == arr.data = <<>>

\* lines 284-289, the property `data` of DataArray a: the value it gives (or the
\* engine's error), and the cache and engine log after it
DataOf(a) ==
    LET arr == arrays[a]
    IN IF DataIsNone(arr)
       THEN IF Selectable(arr.selection_obj, arr.field_tuple)
            THEN [ok |-> TRUE, val |-> SelectionRead(arr),
                  arrays |-> [arrays EXCEPT ![a].data = <<SelectionRead(arr)>>],
                  reads |-> Append(reads, Read(a, arr.selection_obj, arr.field_tuple, TRUE))]
            ELSE [ok |-> FALSE, val |-> <<>>, arrays |-> arrays,
                  reads |-> Append(reads, Read(a, arr.selection_obj, arr.field_tuple, FALSE))]
       ELSE [ok |-> TRUE, val |-> arr.data[1], arrays |-> arrays, reads |-> reads]

\* lines 284-289
Data(a) ==
    /\ pc = "ready"
    /\ a \in 1..Len(arrays)
    /\ last' = [op |-> "data", arg |-> [a |-> a, key |-> <<>>]]
    /\ LET d == DataOf(a)
       IN /\ arrays' = d.arrays
          /\ reads' = d.reads
          /\ ret' = IF d.ok THEN Return("ytarray", d.val) ELSE EngineKeyError
    /\ EngineReads
    /\ UNCHANGED <<dimensionality, pc, ds, loads, grids>>

\* lines 363-373: float(self.data.max()), .min(), .mean(); kwargs is not used
Reduce(a, op, kwargs) ==
    /\ pc = "ready"
    /\ a \in 1..Len(arrays)
    /\ last' = [op |-> op, arg |-> [a |-> a, key |-> kwargs]]
    /\ LET d == DataOf(a)
       IN /\ arrays' = d.arrays
          /\ reads' = d.reads
          /\ ret' = IF d.ok THEN Return("float", [op |-> op, of |-> d.val])
                    ELSE EngineKeyError
    /\ EngineReads
    /\ UNCHANGED <<dimensionality, pc, ds, loads, grids>>

\* Python's "x or default" for a number or None (<<>>): None and 0 are falsy
PyOr(x, default) == IF x = <<>> \/ x = <<0>> THEN default ELSE x[1]

DeltaOfMax(range) == (1 * range[2]) \div 100

\* line 347: delta = 0.01 * (range[1] - range[0]); coordinates are counted in
\* hundredths of the length unit and the domain extent is a multiple of 100
Delta(range) == (1 * (range[2] - range[1])) \div 100

\* lines 340-352: the (left, right) bounds for one axis
AxisBounds(dim, kwargs) ==
    LET range == ds.coords[dim \o "_range"]
    IN IF dim \in DOMAIN kwargs
       THEN IF kwargs[dim].k = "slice"
            THEN <<PyOr(kwargs[dim].start, range[1]), PyOr(kwargs[dim].stop, range[2])>>
            ELSE LET val == kwargs[dim].i
                     delta == Delta(range)
                 IN <<val - delta, val + delta>>
       ELSE <<range[1], range[2]>>

\* lines 335-357: what spatial_select(**kwargs) does on DataArray a
SpatialSelectCall(a, kwargs) ==
    LET coord_names == CoordNames(dimensionality)
        left_edge == [i \in 1..Len(coord_names) |-> AxisBounds(coord_names[i], kwargs)[1]]
        right_edge == [i \in 1..Len(coord_names) |-> AxisBounds(coord_names[i], kwargs)[2]]
        region_data == Region(ds.yt_ds, left_edge, right_edge)
    IN /\ Len(arrays) < MaxArrays
       /\ arrays' = Append(arrays, NewDataArray(ds.data_vars, ds.all_data,
                                                arrays[a].field_name, region_data))
       /\ ret' = Return("dataarray", Len(arrays) + 1)

\* lines 332-357
SpatialSelect(a, kwargs) ==
    /\ pc = "ready"
    /\ a \in 1..Len(arrays)
    /\ last' = [op |-> "spatial_select", arg |-> [a |-> a, key |-> kwargs]]
    /\ SpatialSelectCall(a, kwargs)
    /\ UNCHANGED <<dimensionality, pc, ds, loads, grids, engine, reads>>

\* lines 359-361: return self.spatial_select(**kwargs)
Sel(a, kwargs) ==
    /\ pc = "ready"
    /\ a \in 1..Len(arrays)
    /\ last' = [op |-> "sel", arg |-> [a |-> a, key |-> kwargs]]
    /\ SpatialSelectCall(a, kwargs)
    /\ UNCHANGED <<dimensionality, pc, ds, loads, grids, engine, reads>>

\* lines 317-330; level is an integer or a list of integers, and is not used
\* after it has been made a list
LevelSelect(a, level) ==
    /\ pc = "ready"
    /\ a \in 1..Len(arrays)
    /\ last' = [op |-> "level_select", arg |-> [a |-> a, key |-> level]]
    /\ LET filtered_data == RSlice(ds.yt_ds)
       IN /\ Len(arrays) < MaxArrays
          /\ arrays' = Append(arrays, NewDataArray(ds.data_vars, ds.all_data,
                                                   arrays[a].field_name, filtered_data))
          /\ ret' = Return("dataarray", Len(arrays) + 1)
    /\ UNCHANGED <<dimensionality, pc, ds, loads, grids, engine, reads>>

----------------------------------------------------------------------------
(* Inputs *)

PathLists == SeqsUpTo(Disk \cup {Q1}, MaxFiles)

Strings == {P1, P2, Q1, <<"p", "*">>, <<"p", "?">>, <<"q", "*">>, <<"*", "3">>,
            <<"?", "?", "?">>, <<"*">>}

ConstructInputs ==
    {StrInput(s) : s \in Strings} \cup {ListInput(l) : l \in PathLists}

FieldNames == {"u", "z", "rho", "nosuch"}

CalcFieldNames == {"divergence", "u_gradient_x"}

AllFieldNames == FieldNames \cup CalcFieldNames \cup {"v"}

Init ==
    /\ dimensionality \in {2, 3}
    /\ pc = "start"
    /\ ds = NoDataset
    /\ loads = <<>>
    /\ grids = <<>>
    /\ engine = <<>>
    /\ reads = <<>>
    /\ arrays = <<>>
    /\ ret = None
    /\ last = [op |-> "none", arg |-> <<>>]

(* Construction from every kind of source, and field access *)
Next ==
    \/ \E filename \in ConstructInputs : Construct(filename)
    \/ \E field_name \in FieldNames : DatasetGetitem(field_name)

Spec == Init /\ [][Next]_vars

(* Derived fields on a Dataset of one or two snapshots *)
CalcSources == {ListInput(<<P1>>), ListInput(<<P1, P2>>), ListInput(<<P2, P3>>)}

CalcFields == {"u", "v", "nosuch"}

CalcDims == {"x", "t"}

CalcPairs == {<<"u", "v">>, <<"v", "u">>, <<"u", "nosuch">>, <<"nosuch", "v">>}

CalcThird == {"", "v"}

NextCalc ==
    \/ \E filename \in CalcSources : Construct(filename)
    \/ \E field_name \in CalcFieldNames : DatasetGetitem(field_name)
    \/ \E field \in CalcFields, dim \in CalcDims : Gradient(field, dim)
    \/ \E p \in CalcPairs, w \in CalcThird : Divergence(p[1], p[2], w)
    \/ \E p \in CalcPairs : Vorticity(p[1], p[2])

SpecCalc == Init /\ [][NextCalc]_vars

(* Indexing, shape and values of the fields of a Dataset *)
ArraySources ==
    {ListInput(<<P1>>), ListInput(<<P2, P3>>), ListInput(<<P1, P3, P2>>)}

ArrayFieldNames == {"u", "v"}

TimeIndices ==
    {I(0), I(-1), I(3), All, S(<<1>>, <<>>, <<>>), S(<<>>, <<>>, <<-1>>),
     S(<<0>>, <<3>>, <<2>>)}

SpatialKeys ==
    {<<>>, <<I(0)>>, <<I(1), All>>, <<All, I(NX)>>, <<I(0), I(-1), I(0)>>,
     <<I(0), I(0), I(0), I(0)>>}

Keys ==
    {[tuple |-> TRUE, items |-> <<>>]}
    \cup {[tuple |-> TRUE, items |-> <<t>> \o k] : t \in TimeIndices, k \in SpatialKeys}
    \cup {[tuple |-> FALSE, items |-> <<t>>] : t \in {I(-1), S(<<1>>, <<>>, <<>>)}}

Levels == {<<>>, <<-1>>, <<0>>, <<1>>, <<MaxLevel + 1>>}

NextArray ==
    \/ \E filename \in ArraySources : Construct(filename)
    \/ \E field_name \in ArrayFieldNames :
          Len(arrays) < MaxIndexed /\ DatasetGetitem(field_name)
    \/ \E a \in 1..MaxIndexed, key \in Keys : ArrayGetitem(a, key)
    \/ \E a \in 1..MaxIndexed : Shape(a)
    \/ \E a \in 1..MaxIndexed, level \in Levels : Values(a, level)

SpecArray == Init /\ [][NextArray]_vars

(* Reductions and selections on the fields of a Dataset *)
SelectSources == {ListInput(<<P1>>), ListInput(<<P1, P2>>)}

SelectFieldNames == {"u"}

\* keyword arguments of spatial_select: a slice or a scalar per axis named
Bounds ==
    {<<>>,
     "x" :> S(<<0>>, <<100>>, <<>>),
     "x" :> S(<<-100>>, <<0>>, <<>>),
     "y" :> S(<<>>, <<150>>, <<>>),
     "x" :> I(50),
     ("x" :> S(<<50>>, <<>>, <<>>)) @@ ("y" :> I(0)),
     "z" :> I(-100)}

ReduceOps == {"max", "min", "mean"}

ReduceKwargs == {<<>>, "axis" :> 0}

LevelLists == {[list |-> FALSE, levels |-> <<0>>], [list |-> TRUE, levels |-> <<0, MaxLevel>>],
               [list |-> TRUE, levels |-> <<>>]}

NextSelect ==
    \/ \E filename \in SelectSources : Construct(filename)
    \/ \E field_name \in SelectFieldNames :
          Len(arrays) < MaxIndexed /\ DatasetGetitem(field_name)
    \/ \E a \in 1..MaxSelected : Data(a)
    \/ \E a \in 1..MaxSelected, op \in ReduceOps, kwargs \in ReduceKwargs :
          Reduce(a, op, kwargs)
    \/ \E a \in 1..MaxSelected, kwargs \in Bounds :
          Len(arrays) < MaxSelected /\ SpatialSelect(a, kwargs)
    \/ \E a \in 1..MaxSelected, kwargs \in Bounds :
          Len(arrays) < MaxSelected /\ Sel(a, kwargs)
    \/ \E a \in 1..MaxSelected, level \in LevelLists :
          Len(arrays) < MaxSelected /\ LevelSelect(a, level)

SpecSelect == Init /\ [][NextSelect]_vars

(* The coarsest cache of DataArrays while gradients are registered *)
CacheSources == {ListInput(<<P1, P2>>), ListInput(<<P2, P3>>)}

CacheFieldNames == {"u", "v"}

CacheKeys ==
    {[tuple |-> FALSE, items |-> <<I(0)>>],
     [tuple |-> TRUE, items |-> <<All, I(0), I(0)>>]}

CacheLevels == {<<>>, <<0>>}

\* the DataArray the calls are made on is the first one created, by
\* dataset[name] or by calc.gradient
NextCache ==
    \/ \E filename \in CacheSources : Construct(filename)
    \/ \E field_name \in CacheFieldNames :
          Len(arrays) < MaxIndexed /\ DatasetGetitem(field_name)
    \/ Gradient("u", "x")
    \/ \E a \in 1..MaxIndexed, key \in CacheKeys : ArrayGetitem(a, key)
    \/ \E a \in 1..MaxIndexed : Shape(a)
    \/ \E a \in 1..MaxIndexed, level \in CacheLevels : Values(a, level)

SpecCache == Init /\ [][NextCache]_vars

(* Recipes registered on a Dataset and evaluated when a DataArray reads them *)
RecipeSources == {ListInput(<<P1>>), ListInput(<<P1, P1>>)}

RecipePairs == {<<"u", "v">>, <<"v", "u">>}

RecipeThird == {"", "u_gradient_x", "v_gradient_y"}

NextRecipe ==
    \/ \E filename \in RecipeSources : Construct(filename)
    \/ Gradient("v", "y")
    \/ \E p \in RecipePairs, w \in RecipeThird : Divergence(p[1], p[2], w)
    \/ \E p \in RecipePairs : Vorticity(p[1], p[2])
    \/ \E a \in 1..MaxArrays :
          Len(reads) < dimensionality + MaxEvaluations /\ Data(a)

SpecRecipe == Init /\ [][NextRecipe]_vars

----------------------------------------------------------------------------
(* Properties of construction and field access *)

NTimesteps == Len(ds.times)

NonDecreasing(t) == \A i, j \in 1..Len(t) : i < j => t[i] <= t[j]

StrictlyIncreasing(t) == \A i, j \in 1..Len(t) : i < j => t[i] < t[j]

\* the time the engine reports for snapshot s
SnapshotTime(s) == FileTime(loads[s])

\* C1: after construction times is non-decreasing, and files, times, snapshots,
\* whole-domain selections and coarsest grids have the same length and are
\* index-aligned: times[i] is the time of the snapshot loaded from files[i], and
\* coarsest_grids[i] and all_data[i] were built from that snapshot.
C1_SortedAndAligned ==
    pc = "ready" =>
        /\ NonDecreasing(ds.times)
        /\ NTimesteps >= 1
        /\ Len(ds.files) = NTimesteps
        /\ Len(ds.yt_datasets) = NTimesteps
        /\ Len(ds.all_data) = NTimesteps
        /\ Len(ds.coarsest_grids) = NTimesteps
        /\ Len(loads) = NTimesteps
        /\ \A i, j \in 1..NTimesteps : i # j => ds.yt_datasets[i] # ds.yt_datasets[j]
        /\ \A i \in 1..NTimesteps :
              /\ ds.yt_datasets[i] \in 1..Len(loads)
              /\ ds.files[i] = loads[ds.yt_datasets[i]]
              /\ ds.times[i] = SnapshotTime(ds.yt_datasets[i])
              /\ ds.coarsest_grids[i].snap = ds.yt_datasets[i]
              /\ ds.coarsest_grids[i].level = 0
              /\ ds.all_data[i].snap = ds.yt_datasets[i]

\* a Dataset of three snapshots whose paths were not given in time order
C1_Witness ==
    /\ pc = "ready"
    /\ NTimesteps = 3
    /\ ds.files # loads
    /\ ds.times[1] < ds.times[3]

\* C2 as stated: times is strictly ascending after construction.
C2_StrictlyAscending == pc = "ready" => StrictlyIncreasing(ds.times)

\* C2 amended: times is non-decreasing with one entry per loaded path; it is
\* strictly ascending exactly when the loaded snapshots' times are pairwise
\* distinct (snapshots of equal time are all kept).
C2_NonDecreasing ==
    pc = "ready" =>
        /\ NonDecreasing(ds.times)
        /\ Len(ds.times) = Len(loads)
        /\ StrictlyIncreasing(ds.times)
             <=> (\A a, b \in 1..Len(loads) : a # b => SnapshotTime(a) # SnapshotTime(b))

\* two snapshots of one time, after one of a later time was given first
C2_Witness ==
    /\ pc = "ready"
    /\ NTimesteps = 3
    /\ ds.times[1] = ds.times[2]
    /\ SnapshotTime(1) > SnapshotTime(2)

\* C3: the time sort is stable: of two snapshots of equal time, the one loaded
\* first (the input order, the sorted glob order) comes first.
C3_StableSort ==
    pc = "ready" =>
        \A i, j \in 1..NTimesteps :
            (i < j /\ ds.times[i] = ds.times[j]) => ds.yt_datasets[i] < ds.yt_datasets[j]

\* C4: with one snapshot coords has no "time" key and dims no "time" entry; with
\* more, coords["time"] has length n_timesteps, equals times, and is ascending.
C4_TimeCoordinate ==
    pc = "ready" =>
        IF NTimesteps = 1
        THEN "time" \notin DOMAIN ds.coords /\ "time" \notin Range(ds.dims)
        ELSE /\ "time" \in DOMAIN ds.coords
             /\ Len(ds.coords["time"]) = NTimesteps
             /\ \A i \in 1..NTimesteps : ds.coords["time"][i] = ds.times[i]
             /\ NonDecreasing(ds.coords["time"])

\* a glob pattern that expanded to a time series
C4_Witness ==
    /\ pc = "ready"
    /\ last.op = "construct"
    /\ last.arg.kind = "str"
    /\ NTimesteps = 3
    /\ "time" \in DOMAIN ds.coords

\* C5: a string with '*' or '?' that matches no path fails with FileNotFoundError
\* naming the pattern and nothing is loaded through the engine; a string without
\* '*' and '?' is not expanded: the one load made is of the string itself.
C5_PatternNotFound ==
    (last.op = "construct" /\ last.arg.kind = "str") =>
        LET s == last.arg.s
        IN IF \E i \in 1..Len(s) : s[i] = "*" \/ s[i] = "?"
           THEN (\A f \in Disk : ~GlobMatch(s, f)) =>
                    /\ pc = "failed"
                    /\ Raised("FileNotFoundError")
                    /\ ret.val.text = "No files found matching pattern: "
                    /\ ret.val.arg = s
                    /\ loads = <<>>
           ELSE loads = <<s>>

\* the pattern "???" matches none of the two-character paths
C5_Witness ==
    /\ last.op = "construct"
    /\ last.arg.kind = "str"
    /\ last.arg.s = <<"?", "?", "?">>
    /\ pc = "failed"
    /\ loads = <<>>

\* C6: dataset[name] raises KeyError and creates no DataArray when name is no key
\* of data_vars; otherwise it returns a new DataArray with that field name, the
\* identifier data_vars[name], both caches empty and the whole-domain selection of
\* an earliest-time snapshot, whatever the order the paths were given in.
C6_FieldAccess ==
    [][\A name \in AllFieldNames :
          (last'.op = "ds_getitem" /\ last'.arg = name) =>
             IF name \notin DOMAIN ds.data_vars
             THEN /\ ret'.kind = "raise"
                  /\ ret'.val.exc = "KeyError"
                  /\ arrays' = arrays
             ELSE /\ ret'.kind = "dataarray"
                  /\ ret'.val = Len(arrays) + 1
                  /\ Len(arrays') = Len(arrays) + 1
                  /\ SubSeq(arrays', 1, Len(arrays)) = arrays
                  /\ LET a == arrays'[Len(arrays) + 1]
                     IN /\ a.field_name = name
                        /\ a.field_tuple = ds.data_vars[name]
                        /\ a.data = <<>>
                        /\ a.coarsest_data = <<>>
                        /\ a.selection_obj.kind = "all_data"
                        /\ a.selection_obj.snap \in 1..Len(loads)
                        /\ \A s \in 1..Len(loads) :
                              SnapshotTime(a.selection_obj.snap) <= SnapshotTime(s)
      ]_vars

\* a field of a time series whose latest snapshot was given first
C6_Witness ==
    /\ last.op = "ds_getitem"
    /\ ret.kind = "dataarray"
    /\ NTimesteps = 3
    /\ SnapshotTime(1) > SnapshotTime(2)
    /\ arrays[ret.val].selection_obj.snap # 1

\* C7: a dataset[name] call for a name of data_vars returns an object distinct
\* from every DataArray created before, with field_name name, and its field
\* identifier equals that of every earlier DataArray of that name, whatever
\* calc.gradient / divergence / vorticity calls were made in between.
C7_RepeatedAccess ==
    [][\A name \in AllFieldNames :
          (last'.op = "ds_getitem" /\ last'.arg = name /\ name \in DOMAIN ds.data_vars) =>
             /\ ret'.kind = "dataarray"
             /\ ret'.val \notin 1..Len(arrays)
             /\ ret'.val \in 1..Len(arrays')
             /\ arrays'[ret'.val].field_name = name
             /\ \A b \in 1..Len(arrays) :
                   /\ arrays'[b] = arrays[b]
                   /\ arrays[b].field_name = name =>
                         arrays[b].field_tuple = arrays'[ret'.val].field_tuple
      ]_vars

\* dataset["divergence"], calc.divergence(...), dataset["divergence"] again
C7_Witness ==
    /\ last.op = "ds_getitem"
    /\ ret.kind = "dataarray"
    /\ ret.val = 3
    /\ arrays[1].field_name = "divergence"
    /\ arrays[3].field_name = "divergence"
    /\ engine[1].addcalls # <<>>
    /\ arrays[1].field_tuple = arrays[3].field_tuple

----------------------------------------------------------------------------
(* Properties of indexing and shape *)

\* the positional indices of the last array[key] call
LastKey == last.arg.key.items

LastArray == arrays[last.arg.a]

\* the most indices array[key] accepts
MaxIndices == IF NTimesteps > 1 THEN 1 + dimensionality ELSE dimensionality

RaisedTooMany ==
    /\ Raised("IndexError")
    /\ ret.val.text = "Too many indices. Expected at most "

\* the field cannot be read from the coarsest grid of some snapshot
Unloadable(field) == \E s \in DOMAIN engine : field \notin DerivedFieldList(engine[s])

\* C8 as stated: array[key] with more indices than dimensionality (one snapshot)
\* or 1 + dimensionality (several) raises IndexError stating that maximum; a key
\* with at most that many indices never raises this error.
C8_TooManyIndices ==
    last.op = "arr_getitem" =>
        IF Len(LastKey) > MaxIndices
        THEN RaisedTooMany /\ ret.val.arg = MaxIndices
        ELSE ~RaisedTooMany

\* C8 amended: array[key] loads the coarsest cache first when it is absent, and a
\* load that fails (the field cannot be read for some snapshot) raises KeyError
\* whatever the key; otherwise a key with more indices than the maximum raises
\* the IndexError stating the maximum, and a key within it never does.
C8_TooManyIndicesAfterLoad ==
    last.op = "arr_getitem" =>
        /\ Raised("KeyError") => Unloadable(LastArray.field_tuple)
        /\ IF Len(LastKey) > MaxIndices
           THEN Raised("KeyError") \/ (RaisedTooMany /\ ret.val.arg = MaxIndices)
           ELSE ~RaisedTooMany

\* array[0, 0, 0, 0] on a single-snapshot 3D dataset names 3 as the maximum
C8_Witness ==
    /\ last.op = "arr_getitem"
    /\ NTimesteps = 1
    /\ dimensionality = 3
    /\ Len(LastKey) = 4
    /\ RaisedTooMany
    /\ ret.val.arg = 3
    /\ ret.val.got = 4

\* the coarsest array of the field of the last call for the snapshot at position t
SnapshotArray(t) == GridData(ds.coarsest_grids[t + 1], LastArray.field_tuple)

IndexedBy(arr, rest) == IF rest = <<>> THEN arr ELSE NpIndex(arr, rest)

\* cache[t] of the array of the last call, as Python indexes a list
LastCache(t) ==
    LET cache == LastArray.coarsest_data[1]
    IN cache[Norm(t, Len(cache)) + 1]

\* C9: with n > 1 snapshots array[t, rest...] with an integer t is cache[t]
\* indexed by rest, and array[s, rest...] with a slice s is the stack of cache[t]
\* indexed by rest for exactly the t in range(*s.indices(n)), in that order, so
\* its leading length is the number of selected snapshots; with one snapshot
\* every index addresses snapshot 0's array.
C9_IndexSemantics ==
    (last.op = "arr_getitem" /\ ret.kind = "array" /\ LastKey # <<>>) =>
        IF NTimesteps > 1
        THEN LET t == Head(LastKey)
                 rest == Tail(LastKey)
             IN IF t.k = "int"
                THEN ret.val = IndexedBy(LastCache(t.i), rest)
                ELSE LET ts == SliceRange(t, NTimesteps)
                     IN /\ ret.val.shape[1] = Len(ts)
                        /\ ret.val = NpStack([j \in 1..Len(ts) |->
                                                IndexedBy(LastCache(ts[j]), rest)])
        ELSE ret.val = NpIndex(SnapshotArray(0), LastKey)

\* C10: when shape returns a value, it is (n_timesteps,) + the spatial shape of
\* snapshot 0's coarsest array with several snapshots and that spatial shape
\* alone with one; values() at level 0 returns an array of the shape that
\* `shape` gives.
C10_Shape ==
    /\ (last.op = "shape" /\ ret.kind = "tuple") =>
          IF NTimesteps > 1
          THEN ret.val = <<NTimesteps>> \o SnapshotArray(0).shape
          ELSE ret.val = SnapshotArray(0).shape
    /\ (last.op = "values" /\ ret.kind = "array" /\ last.arg.key \in {<<>>, <<0>>}) =>
          /\ LastArray.coarsest_data # <<>>
          /\ ShapeOf(LastArray.coarsest_data[1]).kind = "tuple"
          /\ ret.val.shape = ShapeOf(LastArray.coarsest_data[1]).val

\* the coarsest cache of every array that has one holds the array of each
\* snapshot of the Dataset, in Dataset order
CachesComplete ==
    \A a \in 1..Len(arrays) :
        arrays[a].coarsest_data # <<>> =>
            arrays[a].coarsest_data[1] =
                [i \in 1..NTimesteps |->
                   GridData(ds.coarsest_grids[i], arrays[a].field_tuple)]

\* C9 and C10 hold of the calls made on a complete cache
C9_OnCompleteCache == (pc = "ready" /\ CachesComplete) => C9_IndexSemantics

C10_OnCompleteCache == (pc = "ready" /\ CachesComplete) => C10_Shape

----------------------------------------------------------------------------
(* Properties of values(level) *)

\* C11: values(level) with level < 0 or level > max_level raises ValueError
\* before any grid is built or field read and leaves the DataArray's caches
\* unchanged; for a level in 0..max_level no ValueError is raised; and a call
\* with level None does exactly what the call with level 0 does.
C11_ValuesLevelRange ==
    [][last'.op = "values" =>
         LET a == last'.arg.a
             level == last'.arg.key
             lv == IF level = <<>> THEN 0 ELSE level[1]
         IN /\ (lv < 0 \/ lv > MaxLevel) =>
                  /\ ret'.kind = "raise" /\ ret'.val.exc = "ValueError"
                  /\ grids' = grids
                  /\ reads' = reads
                  /\ arrays' = arrays
            /\ (0 <= lv /\ lv <= MaxLevel) =>
                  ~(ret'.kind = "raise" /\ ret'.val.exc = "ValueError")
            /\ level = <<>> => ValuesCall(a, <<0>>)]_vars

\* values(max_level + 1) has raised ValueError on a DataArray without a cache
C11_Witness ==
    /\ last.op = "values"
    /\ last.arg.key = <<MaxLevel + 1>>
    /\ Raised("ValueError")
    /\ arrays[last.arg.a].coarsest_data = <<>>

\* the number of cells of a grid of these dims
Cells(dims) == dims[1] * dims[2] * dims[3]

\* the grid values(lv) requests for the snapshot at position i
LevelGrid(i, lv) ==
    [snap |-> ds.yt_datasets[i], level |-> lv,
     dims |-> [k \in 1..3 |-> DomainDimensions(dimensionality)[k] * (RefineBy ^ lv)],
     ghost |-> 1]

\* the engine can produce the field on every snapshot of the Dataset
ReadableEverywhere(field) ==
    \A i \in 1..NTimesteps : field \in DerivedFieldList(engine[ds.yt_datasets[i]])

\* the first position whose snapshot cannot produce the field
FirstUnreadable(field) ==
    CHOOSE i \in 1..NTimesteps :
        /\ field \notin DerivedFieldList(engine[ds.yt_datasets[i]])
        /\ \A j \in 1..(i - 1) : field \in DerivedFieldList(engine[ds.yt_datasets[j]])

\* what C12 says of a values(lv) step on DataArray a that reads every snapshot
LevelValuesComplete(a, lv) ==
    LET n == NTimesteps
        field == arrays[a].field_tuple
        built == [i \in 1..n |-> LevelGrid(i, lv)]
        data == [i \in 1..n |-> GridData(built[i], field)]
    IN /\ grids' = grids \o built
       /\ arrays' = arrays
       /\ reads' = reads \o [i \in 1..n |-> Read(a, built[i], field, TRUE)]
       /\ ret'.kind = "array"
       /\ ret'.val = IF n > 1 THEN NpStack(data) ELSE data[1]
       /\ \A i \in 1..n :
             /\ Cells(built[i].dims) >= Cells(ds.coarsest_grids[i].dims)
             /\ \A l \in 1..lv : Cells(LevelGrid(i, l).dims) >= Cells(LevelGrid(i, l - 1).dims)

\* C12 as stated: for every level with 1 <= level <= max_level, values(level)
\* builds exactly one covering grid per snapshot, in snapshot order, with dims
\* domain_dimensions * refine_by^level and 1 ghost zone, neither reads nor
\* modifies the coarsest cache, and returns the per-snapshot arrays (stacked in
\* time order when n_timesteps > 1); the cell count is non-decreasing in level
\* and never below the level-0 count.
C12_LevelValues ==
    [][(last'.op = "values" /\ last'.arg.key # <<>>
        /\ 1 <= last'.arg.key[1] /\ last'.arg.key[1] <= MaxLevel) =>
           LevelValuesComplete(last'.arg.a, last'.arg.key[1])]_vars

\* C12, amended: that holds when every snapshot can produce the field; when
\* some snapshot cannot, the call raises KeyError naming the field and the level
\* after building the grids of the snapshots up to and including the first
\* such snapshot, and the coarsest cache is not read or modified either.
C12_LevelValuesReadable ==
    [][(last'.op = "values" /\ last'.arg.key # <<>>
        /\ 1 <= last'.arg.key[1] /\ last'.arg.key[1] <= MaxLevel) =>
          LET a == last'.arg.a
              lv == last'.arg.key[1]
              field == arrays[a].field_tuple
          IN IF ReadableEverywhere(field)
             THEN LevelValuesComplete(a, lv)
             ELSE LET k == FirstUnreadable(field)
                  IN /\ grids' = grids \o [i \in 1..k |-> LevelGrid(i, lv)]
                     /\ arrays' = arrays
                     /\ reads' = reads \o [i \in 1..k |->
                                              Read(a, LevelGrid(i, lv), field, i < k)]
                     /\ ret'.kind = "raise" /\ ret'.val.exc = "KeyError"
                     /\ ret'.val.arg = field.name /\ ret'.val.got = lv]_vars

\* values(1) has returned the stack of a Dataset with several snapshots
C12_Witness ==
    /\ last.op = "values"
    /\ last.arg.key = <<1>>
    /\ ret.kind = "array"
    /\ NTimesteps > 1
    /\ ret.val.shape = <<NTimesteps>> \o LevelGrid(1, 1).dims

----------------------------------------------------------------------------
(* Properties of data, the reductions and the selections *)

DataOps == {"data", "max", "min", "mean"}

\* an entry of the engine log made on a selection (not on a covering grid)
OnSelection(r) == "kind" \in DOMAIN r.on

\* the reads of the log that DataArray a made on a selection
SelectionReads(log, a) == {j \in 1..Len(log) : log[j].by = a /\ OnSelection(log[j])}

\* C13: max(), min() and mean() return the reduction of the field as read
\* through the DataArray's own selection handle, never read or populate the
\* coarsest cache, and return the same result whatever keyword arguments are
\* passed (the result is determined by the reduction and the DataArray alone).
C13_Reductions ==
    [][last'.op \in ReduceOps =>
         LET a == last'.arg.a
         IN /\ ret'.kind = "float"
            /\ ret'.val = [op |-> last'.op,
                           of |-> [sel |-> arrays[a].selection_obj,
                                   f |-> arrays[a].field_tuple]]
            /\ Len(arrays') = Len(arrays)
            /\ \A b \in 1..Len(arrays) :
                  arrays'[b].coarsest_data = arrays[b].coarsest_data
            /\ grids' = grids
            /\ \A j \in (Len(reads) + 1)..Len(reads') :
                  reads'[j].on = arrays[a].selection_obj]_vars

\* mean(axis=0) has returned on a DataArray that spatial_select produced
C13_Witness ==
    /\ last.op = "mean"
    /\ last.arg.key # <<>>
    /\ ret.kind = "float"
    /\ arrays[last.arg.a].selection_obj.kind = "region"
    /\ arrays[last.arg.a].coarsest_data = <<>>

\* C14: across data, max(), min() and mean() calls on one DataArray the
\* selection handle is read for the field at most once: the first access
\* stores the value in the single-value cache, every later access returns the
\* cached value and makes no engine read.
C14_DataReadOnce ==
    [][last'.op \in DataOps =>
         LET a == last'.arg.a
             value == IF last'.op = "data" THEN ret'.val ELSE ret'.val.of
         IN /\ Cardinality(SelectionReads(reads', a)) <= 1
            /\ arrays'[a].data = <<value>>
            /\ arrays[a].data # <<>> =>
                  /\ reads' = reads
                  /\ arrays' = arrays
                  /\ value = arrays[a].data[1]
            /\ arrays[a].data = <<>> =>
                  /\ Len(reads') = Len(reads) + 1
                  /\ SelectionReads(reads, a) = {}]_vars

\* data has been served from the cache of a DataArray: the engine's last read
\* was made by another DataArray, after this one's only read
C14_Witness ==
    /\ last.op = "data"
    /\ ret.kind = "ytarray"
    /\ Cardinality(SelectionReads(reads, last.arg.a)) = 1
    /\ reads[Len(reads)].by # last.arg.a
    /\ OnSelection(reads[Len(reads)])

\* the DataArray a spatial_select or sel call has just returned
Selected == arrays[ret.val]

SelectReturned == last.op \in {"spatial_select", "sel"} /\ ret.kind = "dataarray"

\* C15: spatial_select requests a region with one (left, right) pair per spatial
\* axis in x, y, z order; for an axis given as a slice the left bound is the
\* start whenever a start is supplied (0 included) and the domain minimum only
\* when it is missing, the right bound the stop or else the domain maximum, and
\* an omitted axis gets [domain_min, domain_max].
C15_SliceBounds ==
    SelectReturned =>
        LET kwargs == last.arg.key
            names == CoordNames(dimensionality)
            region == Selected.selection_obj
        IN /\ region.kind = "region"
           /\ Len(region.left) = dimensionality
           /\ Len(region.right) = dimensionality
           /\ \A i \in 1..dimensionality :
                 IF names[i] \notin DOMAIN kwargs
                 THEN region.left[i] = DomainLeft /\ region.right[i] = DomainRight
                 ELSE kwargs[names[i]].k = "slice" =>
                        /\ region.left[i] = IF kwargs[names[i]].start = <<>>
                                            THEN DomainLeft
                                            ELSE kwargs[names[i]].start[1]
                        /\ region.right[i] = IF kwargs[names[i]].stop = <<>>
                                             THEN DomainRight
                                             ELSE kwargs[names[i]].stop[1]

\* C15 holds of the calls whose slices give no bound of 0
C15_OnNonZeroBounds ==
    (SelectReturned
     /\ \A d \in DOMAIN last.arg.key :
           last.arg.key[d].k = "slice" =>
               last.arg.key[d].start # <<0>> /\ last.arg.key[d].stop # <<0>>)
    => C15_SliceBounds

\* the axes of the region just requested that were given a scalar argument
ScalarAxes ==
    {i \in 1..dimensionality :
        /\ CoordNames(dimensionality)[i] \in DOMAIN last.arg.key
        /\ last.arg.key[CoordNames(dimensionality)[i]].k = "int"}

\* C16 as stated: a scalar v for an axis requests a region centered on v whose
\* width is 1% of that axis's domain extent.
C16_ScalarWidth ==
    SelectReturned =>
        \A i \in ScalarAxes :
            LET v == last.arg.key[CoordNames(dimensionality)[i]].i
                left == Selected.selection_obj.left[i]
                right == Selected.selection_obj.right[i]
            IN /\ left + right = 2 * v
               /\ 100 * (right - left) = DomainRight - DomainLeft

\* C16, amended: the region is centered on v and reaches 1% of the axis's domain
\* extent to each side of v, so its width is 2% of the extent.
C16_ScalarHalfWidth ==
    SelectReturned =>
        \A i \in ScalarAxes :
            LET v == last.arg.key[CoordNames(dimensionality)[i]].i
                left == Selected.selection_obj.left[i]
                right == Selected.selection_obj.right[i]
            IN /\ left + right = 2 * v
               /\ 100 * (v - left) = DomainRight - DomainLeft
               /\ 100 * (right - v) = DomainRight - DomainLeft
               /\ 100 * (right - left) = 2 * (DomainRight - DomainLeft)

\* spatial_select(x=50) has returned
C16_Witness ==
    /\ SelectReturned
    /\ 1 \in ScalarAxes
    /\ last.arg.key["x"].i = 50
    /\ Selected.selection_obj.left[1] < 50

\* C17: spatial_select and sel return a new DataArray with the receiver's
\* field_name and field identifier, the newly built region as its selection and
\* both caches empty; the receiver (and every other DataArray) and the Dataset
\* are unchanged; sel(**b) does what spatial_select(**b) does.
C17_SelectFrame ==
    [][last'.op \in {"spatial_select", "sel"} =>
         LET a == last'.arg.a
             new == arrays'[Len(arrays')]
         IN /\ Len(arrays') = Len(arrays) + 1
            /\ ret' = Return("dataarray", Len(arrays'))
            /\ new.field_name = arrays[a].field_name
            /\ new.field_tuple = arrays[a].field_tuple
            /\ new.selection_obj.kind = "region"
            /\ new.selection_obj.snap = ds.yt_ds
            /\ new.data = <<>>
            /\ new.coarsest_data = <<>>
            /\ \A b \in 1..Len(arrays) : arrays'[b] = arrays[b]
            /\ ds' = ds
            /\ last'.op = "sel" => SpatialSelectCall(a, last'.arg.key)]_vars

\* sel has returned a narrowed DataArray of a receiver whose value is cached
C17_Witness ==
    /\ last.op = "sel"
    /\ ret.kind = "dataarray"
    /\ last.arg.key # <<>>
    /\ arrays[last.arg.a].data # <<>>
    /\ Selected.selection_obj # arrays[last.arg.a].selection_obj

\* C18: level_select(L) returns a new DataArray of the same field whose
\* selection holds only data of the refinement level(s) in L.
C18_LevelSelect ==
    (last.op = "level_select" /\ ret.kind = "dataarray") =>
        /\ Selected.field_tuple = arrays[last.arg.a].field_tuple
        /\ SelectionLevels(Selected.selection_obj) \subseteq Range(last.arg.key.levels)

----------------------------------------------------------------------------
(* Properties of calc.gradient *)

\* C19: calc.gradient(field, axis) with axis not in {x, y, z} raises ValueError,
\* whether or not field is a key of data_vars, and makes no engine registration
\* and no change to data_vars.
C19_InvalidAxis ==
    [][(last'.op = "gradient" /\ last'.arg[2] \notin {"x", "y", "z"}) =>
         /\ ret'.kind = "raise" /\ ret'.val.exc = "ValueError"
         /\ engine' = engine
         /\ ds' = ds
         /\ arrays' = arrays]_vars

\* gradient of an unknown field along an unknown axis has raised ValueError
C19_Witness ==
    /\ last.op = "gradient"
    /\ last.arg = <<"nosuch", "t">>
    /\ Raised("ValueError")

\* what C20 says of a gradient(field, axis) step that registers on every snapshot;
\* identifier is what data_vars is to hold for the result name
GradientRegistered(field, axis, identifier) ==
    LET name == field \o "_gradient_" \o axis
        new == arrays'[Len(arrays')]
    IN /\ ret' = Return("dataarray", Len(arrays'))
       /\ Len(arrays') = Len(arrays) + 1
       /\ new.field_name = name
       /\ new.field_tuple = identifier
       /\ name \in DOMAIN ds'.data_vars
       /\ ds'.data_vars[name] = identifier
       /\ \A i \in 1..NTimesteps :
             LET s == ds.yt_datasets[i]
             IN /\ engine'[s].gradcalls = Append(engine[s].gradcalls, ds.data_vars[field])
                /\ [ns |-> ds.data_vars[field].ns, name |-> name] \in engine'[s].derived

\* C20 as stated: for every field in data_vars and axis in {x, y, z},
\* calc.gradient(field, axis) returns a DataArray with field_name
\* '{field}_gradient_{axis}' and identifier (namespace of the base field,
\* '{field}_gradient_{axis}'); after the call that name is a key of data_vars
\* mapped to that identifier, and the batched gradient registration for the
\* base field has been requested on every snapshot.
C20_Gradient ==
    [][(last'.op = "gradient" /\ last'.arg[2] \in {"x", "y", "z"}
        /\ last'.arg[1] \in DOMAIN ds.data_vars) =>
          LET field == last'.arg[1]
              axis == last'.arg[2]
          IN GradientRegistered(field, axis,
                                [ns |-> ds.data_vars[field].ns,
                                 name |-> field \o "_gradient_" \o axis])]_vars

\* C20 holds of the calls made when every snapshot can produce the base field
\* and the result name is not yet a key of data_vars; when the name is a key
\* already it keeps its identifier, which the returned DataArray carries; when
\* some snapshot cannot produce the base field the call raises, returns no
\* DataArray and leaves data_vars unchanged.
C20_GradientWhenRegistrable ==
    [][(last'.op = "gradient" /\ last'.arg[2] \in {"x", "y", "z"}
        /\ last'.arg[1] \in DOMAIN ds.data_vars) =>
          LET field == last'.arg[1]
              axis == last'.arg[2]
              name == field \o "_gradient_" \o axis
          IN IF ReadableEverywhere(ds.data_vars[field])
             THEN GradientRegistered(field, axis,
                                     IF name \in DOMAIN ds.data_vars
                                     THEN ds.data_vars[name]
                                     ELSE [ns |-> ds.data_vars[field].ns, name |-> name])
             ELSE /\ ret'.kind = "raise"
                  /\ ds' = ds
                  /\ arrays' = arrays]_vars

\* gradient('u', 'x') has returned on a Dataset of two snapshots and has added
\* its result to data_vars
C20_Witness ==
    /\ last.op = "gradient"
    /\ last.arg = <<"u", "x">>
    /\ ret.kind = "dataarray"
    /\ NTimesteps > 1
    /\ arrays[ret.val].field_tuple = [ns |-> "boxlib", name |-> "u_gradient_x"]
    /\ ds.data_vars["u_gradient_x"] = [ns |-> "boxlib", name |-> "u_gradient_x"]

----------------------------------------------------------------------------
(* Properties of repeated calc calls *)

\* a step that repeats the gradient call that has just returned a DataArray
RepeatedGradient ==
    /\ last.op = "gradient"
    /\ ret.kind = "dataarray"
    /\ last'.op = "gradient"
    /\ last'.arg = last.arg

\* the number of add_gradient_fields calls made so far on snapshot s
GradientCallCount(e, s) == Len(e[s].gradcalls)

\* C21 as stated: calc.gradient(f, 'x') called twice returns DataArrays of the
\* same field name, the second call makes no further gradient-registration call
\* on any snapshot, and it leaves data_vars as the first call left it.
C21_GradientIdempotent ==
    [][RepeatedGradient =>
         /\ ret'.kind = "dataarray"
         /\ arrays'[ret'.val].field_name = arrays[ret.val].field_name
         /\ \A s \in DOMAIN engine :
               GradientCallCount(engine', s) = GradientCallCount(engine, s)
         /\ ds'.data_vars = ds.data_vars]_vars

\* what the second call does: it returns a DataArray of the same field name and
\* identifier, leaves data_vars and the set of registered fields of every
\* snapshot unchanged, and requests the batched gradient registration of the
\* base field once more on every snapshot.
C21_SecondCallRegistersAgain ==
    [][RepeatedGradient =>
         /\ ret'.kind = "dataarray"
         /\ arrays'[ret'.val].field_name = arrays[ret.val].field_name
         /\ arrays'[ret'.val].field_tuple = arrays[ret.val].field_tuple
         /\ ds'.data_vars = ds.data_vars
         /\ \A s \in DOMAIN engine :
               /\ engine'[s].derived = engine[s].derived
               /\ engine'[s].gradcalls =
                     Append(engine[s].gradcalls, ds.data_vars[last.arg[1]])]_vars

\* gradient('u', 'x') has returned twice in a row on a Dataset of two snapshots
C21_Witness ==
    /\ last.op = "gradient"
    /\ last.arg = <<"u", "x">>
    /\ ret = Return("dataarray", 2)
    /\ arrays[1].field_name = "u_gradient_x"
    /\ arrays[2].field_name = "u_gradient_x"
    /\ NTimesteps = 2
    /\ \A s \in DOMAIN engine : GradientCallCount(engine, s) = 2

\* the identifier under which calc.divergence / calc.vorticity registers
ResultIdentifier(op) ==
    [ns |-> "boxlib", name |-> IF op = "divergence" THEN "divergence" ELSE "vorticity_z"]

\* the number of add_field calls made so far on snapshot s for an identifier
AddFieldCount(e, s, identifier) ==
    Cardinality({j \in 1..Len(e[s].addcalls) : e[s].addcalls[j].field = identifier})

\* a step in which calc.divergence or calc.vorticity returns its DataArray
RecipeCallReturns ==
    /\ last'.op \in {"divergence", "vorticity"}
    /\ ret'.kind = "dataarray"

\* no step of the Dataset takes a registered field or an add_field call away
RegistrationsKept ==
    pc = "ready" =>
        \A s \in DOMAIN engine :
            /\ engine[s].derived \subseteq engine'[s].derived
            /\ \A op \in {"divergence", "vorticity"} :
                  AddFieldCount(engine, s, ResultIdentifier(op)) <=
                      AddFieldCount(engine', s, ResultIdentifier(op))

\* C22 as stated: when a divergence (resp. vorticity) call has returned, every
\* snapshot has ('boxlib', 'divergence') (resp. ('boxlib', 'vorticity_z'))
\* registered and add_field has been called for it exactly once on every
\* snapshot, however often the call is repeated.
C22_AddFieldOnce ==
    [][/\ RegistrationsKept
       /\ RecipeCallReturns =>
             \A s \in DOMAIN engine :
                 /\ ResultIdentifier(last'.op) \in DerivedFieldList(engine'[s])
                 /\ AddFieldCount(engine', s, ResultIdentifier(last'.op)) = 1]_vars

\* C22 amended: when the call has returned, every snapshot can produce the
\* identifier, and add_field has been called for it exactly once on every
\* snapshot whose own field list does not hold the identifier and never on a
\* snapshot whose field list holds it, however often the call is repeated; a
\* call that raises makes no add_field call.
C22_AddFieldAtMostOnce ==
    [][/\ RegistrationsKept
       /\ RecipeCallReturns =>
             \A s \in DOMAIN engine :
                 /\ ResultIdentifier(last'.op) \in DerivedFieldList(engine'[s])
                 /\ AddFieldCount(engine', s, ResultIdentifier(last'.op)) =
                       IF ResultIdentifier(last'.op) \in engine'[s].fields THEN 0 ELSE 1
       /\ (last'.op \in {"divergence", "vorticity"} /\ ret'.kind = "raise") =>
             \A s \in DOMAIN engine : engine'[s].addcalls = engine[s].addcalls]_vars

\* divergence has returned for the second time on a Dataset of two snapshots:
\* four gradient registrations and one add_field call on each snapshot
C22_Witness ==
    /\ last.op = "divergence"
    /\ ret.kind = "dataarray"
    /\ NTimesteps = 2
    /\ \A s \in DOMAIN engine :
          /\ GradientCallCount(engine, s) = 4
          /\ Len(engine[s].addcalls) = 1
          /\ AddFieldCount(engine, s, ResultIdentifier("divergence")) = 1

----------------------------------------------------------------------------
(* Properties of the divergence and vorticity recipes *)

\* a step in which calc.divergence returns its DataArray
DivergenceReturns ==
    /\ last'.op = "divergence"
    /\ ret'.kind = "dataarray"

\* the identifier of the gradient of a data_vars name along an axis, as the
\* calc methods build it
GradientOf(data_vars, field, axis) ==
    [ns |-> data_vars[field].ns, name |-> field \o "_gradient_" \o axis]

\* C23 as stated: when divergence(u, v, w) returns on a 3-dimensional Dataset
\* with w in data_vars, the gradient fields of w are registered on every
\* snapshot and the registered recipe evaluates to du/dx + dv/dy + dw/dz; when
\* w is omitted or the Dataset is 2-dimensional, no gradient of w is registered
\* and the recipe evaluates to du/dx + dv/dy only.
C23_DivergenceOfW ==
    [][DivergenceReturns =>
         LET u == last'.arg[1]
             v == last'.arg[2]
             w == last'.arg[3]
             ux == GradientOf(ds.data_vars, u, "x")
             vy == GradientOf(ds.data_vars, v, "y")
         IN \A s \in DOMAIN engine :
               LET read == ReadField(engine', s, ResultIdentifier("divergence"))
               IN IF w # "" /\ dimensionality = 3
                  THEN w \in DOMAIN ds.data_vars =>
                          /\ GradientFields(ds.data_vars[w]) \subseteq engine'[s].derived
                          /\ read.ok
                          /\ read.value = [op |-> "sum",
                                           terms |-> <<ux, vy,
                                                       GradientOf(ds.data_vars, w, "z")>>]
                  ELSE /\ read.ok
                       /\ read.value = [op |-> "sum", terms |-> <<ux, vy>>]
                       /\ read.engine = engine'
                       /\ w \in DOMAIN ds.data_vars =>
                             GradientFields(ds.data_vars[w]) \cap engine'[s].derived
                                 \subseteq engine[s].derived]_vars

\* what the code does: divergence itself requests the gradient registration of
\* u and v only; on a snapshot where this call makes the add_field call the
\* registered function gives du/dx + dv/dy + dw/dz for a w of data_vars on a
\* 3-dimensional Dataset, and requests the gradient registration of w on every
\* snapshot each time it is evaluated; on a snapshot that has the identifier
\* already the function registered first stays
C23_WRegisteredByEvaluation ==
    [][DivergenceReturns =>
         LET u == last'.arg[1]
             v == last'.arg[2]
             w == last'.arg[3]
             ux == GradientOf(ds.data_vars, u, "x")
             vy == GradientOf(ds.data_vars, v, "y")
             id == ResultIdentifier("divergence")
         IN \A s \in DOMAIN engine :
               /\ engine'[s].gradcalls =
                     engine[s].gradcalls \o <<ds.data_vars[u], ds.data_vars[v]>>
               /\ IF HasRecipe(engine[s], id)
                  THEN engine'[s].addcalls = engine[s].addcalls
                  ELSE LET read == ReadField(engine', s, id)
                       IN IF w # "" /\ dimensionality = 3
                          THEN w \in DOMAIN ds.data_vars =>
                                  /\ read.ok
                                  /\ read.value =
                                        [op |-> "sum",
                                         terms |-> <<ux, vy,
                                                     GradientOf(ds.data_vars, w, "z")>>]
                                  /\ \A r \in DOMAIN engine :
                                        read.engine[r].gradcalls =
                                            Append(engine'[r].gradcalls, ds.data_vars[w])
                          ELSE /\ read.ok
                               /\ read.value = [op |-> "sum", terms |-> <<ux, vy>>]
                               /\ read.engine = engine']_vars

\* divergence('u', 'v', 'u_gradient_x') has returned on a 3-dimensional Dataset
\* of two snapshots and no gradient of its third field is registered
C23_Witness ==
    /\ last.op = "divergence"
    /\ last.arg = <<"u", "v", "u_gradient_x">>
    /\ ret.kind = "dataarray"
    /\ dimensionality = 3
    /\ NTimesteps = 2
    /\ \A s \in DOMAIN engine :
          /\ HasRecipe(engine[s], ResultIdentifier("divergence"))
          /\ GradientFields(ds.data_vars["u_gradient_x"]) \cap engine[s].derived = {}

\* the read that the step has added to the engine's log
NewRead == reads'[Len(reads')]

\* a step in which a DataArray reads a field registered with add_field, so
\* that the engine evaluates the registered function
Evaluates ==
    /\ last'.op = "data"
    /\ Len(reads') = Len(reads) + 1
    /\ HasRecipe(engine[NewRead.on.snap], NewRead.field)

EvaluatedRegistration == Registration(engine[NewRead.on.snap], NewRead.field)

\* data_vars as the constructor built it, from the reference snapshot
DataVarsAtConstruction == BuildDataVars(FieldList(ds.files[1]), dimensionality)

\* what C24 says of one evaluation
RecipeIsPure ==
    LET s == NewRead.on.snap
        rec == EvaluatedRegistration
        eval == EvalRecipe(engine, s, rec.recipe, ds.data_vars)
        before == EvalRecipe(engine, s, rec.recipe, DataVarsAtConstruction)
    IN /\ ds' = ds
       /\ \A r \in DOMAIN engine :
             /\ engine'[r].derived = engine[r].derived
             /\ engine'[r].addcalls = engine[r].addcalls
       /\ Range(eval.value.terms) \subseteq rec.known
       /\ eval.ok = before.ok
       /\ eval.value = before.value

\* C24 as stated: evaluating a registered divergence or vorticity recipe leaves
\* data_vars and every snapshot's registry of derived fields unchanged, reads
\* only identifiers that were registered when the recipe was installed, and
\* gives a result that does not depend on the contents of data_vars at the
\* time of the evaluation.
C24_RecipePurity == [][Evaluates => RecipeIsPure]_vars

\* the same holds of every vorticity recipe, and of a divergence recipe
\* registered without w_field or on a 2-dimensional Dataset
C24_PureWithoutW ==
    [][(/\ Evaluates
        /\ \/ EvaluatedRegistration.recipe.kind = "vorticity"
           \/ EvaluatedRegistration.recipe.w = ""
           \/ dimensionality = 2) => RecipeIsPure /\ ret'.kind = "ytarray"]_vars

\* the data of a vorticity DataArray has been read: its recipe was evaluated
C24_Witness ==
    /\ last.op = "data"
    /\ ret.kind = "ytarray"
    /\ ret.val.f = ResultIdentifier("vorticity")
    /\ HasRecipe(engine[ret.val.sel.snap], ResultIdentifier("vorticity"))

\* the data of a divergence DataArray registered with a third field has been
\* read on a 3-dimensional Dataset
C24_WitnessOfW ==
    /\ last.op = "data"
    /\ ret.kind = "ytarray"
    /\ dimensionality = 3
    /\ ret.val.f = ResultIdentifier("divergence")
    /\ HasRecipe(engine[ret.val.sel.snap], ResultIdentifier("divergence"))
    /\ Registration(engine[ret.val.sel.snap], ResultIdentifier("divergence")).recipe.w
          = "v_gradient_y"

----------------------------------------------------------------------------
(* Properties of data_vars after a calc call *)

CalcOps == {"gradient", "divergence", "vorticity"}

\* a step in which a calc method returns its DataArray
CalcReturns ==
    /\ last'.op \in CalcOps
    /\ ret'.kind = "dataarray"

\* the name of the result of the call of the step
ResultName ==
    IF last'.op = "gradient" THEN last'.arg[1] \o "_gradient_" \o last'.arg[2]
    ELSE ResultIdentifier(last'.op).name

\* the identifier under which the call of the step registers its result
RegisteredIdentifier ==
    IF last'.op = "gradient"
    THEN [ns |-> ds.data_vars[last'.arg[1]].ns, name |-> ResultName]
    ELSE ResultIdentifier(last'.op)

\* C25 as stated: after a calc method returns, data_vars[result name] is the
\* identifier under which the call registered its result, whatever the name was
\* mapped to before; the returned DataArray carries that identifier; every
\* DataArray created before the call is unchanged.
C25_OverwritesMapping ==
    [][CalcReturns =>
         /\ ResultName \in DOMAIN ds'.data_vars
         /\ ds'.data_vars[ResultName] = RegisteredIdentifier
         /\ arrays'[ret'.val].field_tuple = RegisteredIdentifier
         /\ \A b \in 1..Len(arrays) : arrays'[b] = arrays[b]]_vars

\* what the code does: a result name that is a key of data_vars already keeps
\* the identifier it had, a new name is mapped to the registered identifier;
\* the returned DataArray carries data_vars[result name]; no other key changes
\* and every DataArray created before the call is unchanged.
C25_KeepsMapping ==
    [][CalcReturns =>
         /\ DOMAIN ds'.data_vars = DOMAIN ds.data_vars \cup {ResultName}
         /\ \A n \in DOMAIN ds.data_vars : ds'.data_vars[n] = ds.data_vars[n]
         /\ ResultName \notin DOMAIN ds.data_vars =>
               ds'.data_vars[ResultName] = RegisteredIdentifier
         /\ arrays'[ret'.val].field_name = ResultName
         /\ arrays'[ret'.val].field_tuple = ds'.data_vars[ResultName]
         /\ Len(arrays') = Len(arrays) + 1
         /\ \A b \in 1..Len(arrays) : arrays'[b] = arrays[b]]_vars

\* divergence has returned on a Dataset whose reference snapshot stores a field
\* named divergence: the name still maps to the stored field
C25_Witness ==
    /\ last.op = "divergence"
    /\ ret.kind = "dataarray"
    /\ HasRecipe(engine[ds.yt_ds], ResultIdentifier("divergence"))
    /\ ds.data_vars["divergence"] = [ns |-> "amrex", name |-> "divergence"]
    /\ arrays[ret.val].field_tuple = [ns |-> "amrex", name |-> "divergence"]

----------------------------------------------------------------------------
(* Properties of the coarsest cache *)

\* the reads by DataArray a that gave it the level-0 values of a snapshot
CoarsestReads(a, snap) ==
    {j \in 1..Len(reads) :
        /\ reads[j].by = a
        /\ reads[j].ok
        /\ "level" \in DOMAIN reads[j].on
        /\ reads[j].on.level = 0
        /\ reads[j].on.snap = snap}

\* a step that is array[key], shape or values(0) on a DataArray
CoarsestCall ==
    /\ last'.op \in {"arr_getitem", "shape", "values"}
    /\ last'.op = "values" => LevelOrZero(last'.arg.key) = 0

\* C26: over any sequence of array[key], shape and values(0) calls on a
\* DataArray the level-0 values of its field are read from the engine at most
\* once for each snapshot; a call on a DataArray without a cache leaves it with
\* one, and a call on a DataArray with a cache reads nothing from the engine
\* and builds no grid, also when gradient fields were registered in between.
C26_CoarsestReadOnce ==
    /\ [](\A a \in 1..Len(arrays) : \A snap \in DOMAIN engine :
             Cardinality(CoarsestReads(a, snap)) <= 1)
    /\ [][CoarsestCall =>
            LET a == last'.arg.a
            IN /\ arrays'[a].coarsest_data # <<>>
               /\ arrays[a].coarsest_data # <<>> =>
                     /\ reads' = reads
                     /\ grids' = grids
                     /\ arrays'[a].coarsest_data = arrays[a].coarsest_data]_vars

\* array[0] has returned from the cache of a DataArray that was loaded before
\* calc.gradient registered fields: one read for each of the two snapshots
C26_Witness ==
    /\ last.op = "arr_getitem"
    /\ ret.kind = "array"
    /\ NTimesteps = 2
    /\ Len(arrays) = 2
    /\ arrays[1].field_name = "u"
    /\ arrays[1].coarsest_data # <<>>
    /\ arrays[2].field_name = "u_gradient_x"
    /\ \A snap \in DOMAIN engine :
          /\ engine[snap].gradcalls # <<>>
          /\ Cardinality(CoarsestReads(1, snap)) = 1
    /\ Len(reads) = dimensionality + 2

\* the arrays a complete coarsest cache of DataArray a holds
CompleteCache(a) ==
    [i \in 1..NTimesteps |-> GridData(ds.coarsest_grids[i], arrays[a].field_tuple)]

\* the error that _load_coarsest_data raises
RaisedNotFound ==
    /\ Raised("KeyError")
    /\ ret.val.text = "Field not found in dataset"

\* C27: the coarsest cache of a DataArray is absent or holds n_timesteps arrays,
\* one per snapshot in snapshot order; after a load that failed with NotFound
\* the cache is still absent, and a later array[key], shape or values(0) call on
\* the DataArray reports NotFound again.
C27_CacheAbsentOrComplete ==
    /\ [](pc = "ready" =>
            \A a \in 1..Len(arrays) :
                \/ arrays[a].coarsest_data = <<>>
                \/ arrays[a].coarsest_data[1] = CompleteCache(a))
    /\ [](pc = "ready" /\ last.op \in {"arr_getitem", "shape", "values"}
          /\ RaisedNotFound => arrays[last.arg.a].coarsest_data = <<>>)
    /\ [][CoarsestCall /\ Unloadable(arrays[last'.arg.a].field_tuple) =>
            ret'.kind = "raise" /\ ret'.val.text = "Field not found in dataset"]_vars

\* what the code keeps: a cache that is present holds the arrays of the first
\* snapshots in snapshot order, all of them unless some snapshot cannot produce
\* the field; and the first call on a DataArray whose field some snapshot cannot
\* produce raises NotFound
C27_CachePrefix ==
    /\ [](pc = "ready" =>
            \A a \in 1..Len(arrays) :
                arrays[a].coarsest_data # <<>> =>
                    LET cache == arrays[a].coarsest_data[1]
                    IN /\ Len(cache) <= NTimesteps
                       /\ cache = SubSeq(CompleteCache(a), 1, Len(cache))
                       /\ Len(cache) < NTimesteps => Unloadable(arrays[a].field_tuple))
    /\ [][(/\ CoarsestCall
           /\ arrays[last'.arg.a].coarsest_data = <<>>
           /\ Unloadable(arrays[last'.arg.a].field_tuple)) =>
            ret'.kind = "raise" /\ ret'.val.text = "Field not found in dataset"]_vars

\* array[key] has returned an array from the partial cache that a failed load
\* left behind
C27_Witness ==
    /\ last.op = "arr_getitem"
    /\ ret.kind = "array"
    /\ NTimesteps = 2
    /\ Len(arrays[last.arg.a].coarsest_data[1]) = 1

\* du/dx + dv/dy for divergence(u, v) and dv/dx - du/dy for vorticity(u, v),
\* of the arguments of the call of the step
OwnCombination ==
    LET u == last'.arg[1]
        v == last'.arg[2]
    IN IF last'.op = "divergence"
       THEN [op |-> "sum",
             terms |-> <<GradientOf(ds.data_vars, u, "x"), GradientOf(ds.data_vars, v, "y")>>]
       ELSE [op |-> "difference",
             terms |-> <<GradientOf(ds.data_vars, v, "x"), GradientOf(ds.data_vars, u, "y")>>]

\* a step in which divergence(u, v) or vorticity(u, v) returns its DataArray
TwoFieldCallReturns ==
    /\ RecipeCallReturns
    /\ last'.op = "divergence" => last'.arg[3] = ""

\* C28 as stated: the DataArray returned by divergence(u, v) evaluates on every
\* snapshot to du/dx + dv/dy of the u and v of that call, and the one returned
\* by vorticity(u, v) to dv/dx - du/dy, whatever calc calls were made before on
\* the Dataset.
C28_OwnArguments ==
    [][TwoFieldCallReturns =>
         \A s \in DOMAIN engine :
             LET read == ReadField(engine', s, arrays'[ret'.val].field_tuple)
             IN read.ok /\ read.value = OwnCombination]_vars

\* what the code does: on a snapshot where the call makes the add_field call
\* the returned DataArray evaluates to the combination of the call's own
\* arguments; on a snapshot where the identifier is registered already the
\* function registered by the first call stays, whatever its arguments were
C28_FirstCallArguments ==
    [][TwoFieldCallReturns =>
         \A s \in DOMAIN engine :
             LET id == ResultIdentifier(last'.op)
                 read == ReadField(engine', s, arrays'[ret'.val].field_tuple)
             IN /\ arrays'[ret'.val].field_tuple = id
                /\ IF HasRecipe(engine[s], id)
                   THEN Registration(engine'[s], id) = Registration(engine[s], id)
                   ELSE read.ok /\ read.value = OwnCombination]_vars

\* divergence('v', 'u') has returned after divergence('u', 'v') on a Dataset of
\* two snapshots: the registered function is still the one of the first call
C28_Witness ==
    /\ last.op = "divergence"
    /\ last.arg = <<"v", "u", "">>
    /\ ret = Return("dataarray", 2)
    /\ NTimesteps = 2
    /\ \A s \in DOMAIN engine :
          /\ HasRecipe(engine[s], ResultIdentifier("divergence"))
          /\ Registration(engine[s], ResultIdentifier("divergence")).recipe.a
                = [ns |-> "boxlib", name |-> "u_gradient_x"]
          /\ Registration(engine[s], ResultIdentifier("divergence")).recipe.w = ""

----------------------------------------------------------------------------
(* Properties of calc calls on unknown fields *)

\* the first argument of the calc call of the step that is not a key of
\* data_vars when the method looks it up: the field of gradient when the axis is
\* valid, u_field and then v_field of divergence and vorticity; <<>> if none
MissingField ==
    IF last'.op = "gradient"
    THEN IF last'.arg[2] \in {"x", "y", "z"} /\ last'.arg[1] \notin DOMAIN ds.data_vars
         THEN <<last'.arg[1]>> ELSE <<>>
    ELSE IF last'.op \in {"divergence", "vorticity"}
    THEN IF last'.arg[1] \notin DOMAIN ds.data_vars THEN <<last'.arg[1]>>
         ELSE IF last'.arg[2] \notin DOMAIN ds.data_vars THEN <<last'.arg[2]>>
         ELSE <<>>
    ELSE <<>>

\* C29: calc.gradient with a valid axis and a field that is not in data_vars,
\* and calc.divergence / calc.vorticity with a u_field or v_field that is not in
\* data_vars, raise KeyError naming the field, make no engine registration on
\* any snapshot and leave data_vars and the DataArrays unchanged.
C29_UnknownField ==
    [][MissingField # <<>> =>
         /\ ret'.kind = "raise"
         /\ ret'.val.exc = "KeyError"
         /\ ret'.val.arg = MissingField[1]
         /\ engine' = engine
         /\ ds' = ds
         /\ arrays' = arrays]_vars

\* divergence('u', 'nosuch') has raised KeyError on a Dataset of two snapshots
\* after an earlier calc call had registered gradient fields
C29_Witness ==
    /\ last.op = "divergence"
    /\ last.arg[1] = "u"
    /\ last.arg[2] = "nosuch"
    /\ Raised("KeyError")
    /\ ret.val.arg = "nosuch"
    /\ NTimesteps = 2
    /\ Len(arrays) = 1
    /\ \A s \in DOMAIN engine : GradientCallCount(engine, s) = 1

====
